---- MODULE Spec2Model ----
(***************************************************************************)
(* A model of clack, a screen-reader style terminal editor: the sound      *)
(* scheduler (SoundManager, src/src/sound.rs), the way rows are narrated   *)
(* (Row::play, src/src/row.rs), the tokenizer that makes text speakable    *)
(* (src/src/utils.rs) and the editor loops that drive them                 *)
(* (src/src/editor.rs).                                                    *)
(*                                                                         *)
(* Strings are sequences of characters, one TLA+ string per Unicode scalar *)
(* value (a character outside ASCII, the backtick and the single quote are *)
(* written by their code points, as "U+20AC"); Option<T> is a sequence of  *)
(* length at most one.                                                     *)
(***************************************************************************)
EXTENDS Integers, Sequences, FiniteSets, TLC

VARIABLES
  sound_manager,  \* the SoundManager: queue, current_sound, current_child_process
  pc,             \* where the single thread is inside the SoundManager
  sound,          \* the local `sound` being played by play_and_wait, if any
  child,          \* the live `say` process, if any
  script,         \* the SoundManager calls the caller has still to make
  played,         \* sounds played to completion since the caller's last request
  call,           \* the caller's current (or last) request and the state it met
  prev_call,      \* the interrupt_and_play request, if any, that `call` directly follows
  fifo_run,       \* the sounds of the run of consecutive `play` requests
  editor,         \* the Editor: should_quit, cursor_position, document
  reads_at,       \* where the editor reads its next key, or "caller" without an editor
  prompt,         \* the locals of Editor::prompt and Editor::search
  keys_read,      \* the number of keys read so far
  disk,           \* the contents of the document's file, if the file exists
  the_row,        \* a Row whose methods are called directly
  row_call,       \* the last call on the_row
  the_document,   \* a Document whose methods are called directly
  doc_call,       \* the last call on the_document
  lookup,         \* the last call of Row::find, Row::get_word_at or Document::find
  speech,         \* a text and what string_to_speakable_tokens made of it
  config          \* the configuration file, what was read of it and the rate spoken at

sound_vars == <<sound_manager, pc, sound, child, script, played, call, prev_call, fifo_run>>

editor_vars == <<editor, reads_at, prompt, keys_read, disk>>

row_vars == <<the_row, row_call>>

doc_vars == <<the_document, doc_call>>

fn_vars == <<lookup, speech, config>>

vars == <<sound_vars, editor_vars, row_vars, doc_vars, fn_vars>>

---------------------------------------------------------------------------
(* Bounds of the model.                                                    *)

\* The caller stops adding to a queue that already holds this many sounds.
MaxQueue == 3

\* The terminal delivers this many keys.
MaxKeys == 4

\* The callers of Row and Document let no row grow beyond this many characters.
MaxRowLen == 3

\* The callers of Document let no document grow beyond this many rows.
MaxRows == 3

\* The callers of Document make this many calls on it.
MaxCalls == 4

\* The texts given to string_to_speakable_tokens have at most this many
\* characters (the literals of its table apart).
MaxTextLen == 3

\* A configuration file sets rate_wpm at most this far from the default.
MaxRateDelta == 10

\* self.terminal.size().height, the rows of the terminal.
TermHeight == 1

---------------------------------------------------------------------------
(* Option<T>.                                                              *)

None == <<>>

Some(x) == <<x>>

---------------------------------------------------------------------------
(* utils.rs: the tokenizer.                                                *)

\* A table that lists "=" and "<" before the literals they begin.
singles_first ==
  <<
    <<<<"=">>, <<"e", "q", "u", "a", "l", "s">>>>,
    <<<<"<">>, <<"o", "p", "e", "n", " ", "a", "n", "g", "l", "e", " ", "b", "r", "a", "c", "k", "e", "t">>>>,
    <<<<"=", "=">>, <<"d", "o", "u", "b", "l", "e", " ", "e", "q", "u", "a", "l", "s">>>>,
    <<<<"<", "=">>, <<"l", "e", "s", "s", " ", "t", "h", "a", "n", " ", "o", "r", " ", "e", "q", "u", "a", "l", " ", "t", "o">>>>
  >>

\* A table that lists the apostrophe, whose phrase holds a "-", before the
\* rule for "-".
quote_first ==
  <<
    <<<<"U+0027">>, <<"s", "i", "n", "g", "l", "e", "-", "q", "u", "o", "t", "e">>>>,
    <<<<"-">>, <<"m", "i", "n", "u", "s">>>>,
    <<<<"=">>, <<"e", "q", "u", "a", "l", "s">>>>
  >>

replace_map ==
  <<
    <<<<"=", "=", "=">>,
      <<"t", "r", "i", "p", "l", "e", " ", "e", "q", "u", "a", "l", "s">>>>,
    <<<<"U+0060", "U+0060", "U+0060">>,
      <<"t", "r", "i", "p", "l", "e", " ", "b", "a", "c", "k", "t", "i", "c", "k">>>>,
    <<<<"<", "=">>,
      <<"l", "e", "s", "s", " ", "t", "h", "a", "n", " ", "o", "r", " ", "e", "q", "u", "a", "l", " ", "t", "o">>>>,
    <<<<">", "=">>,
      <<"g", "r", "e", "a", "t", "e", "r", " ", "t", "h", "a", "n", " ", "o", "r", " ", "e", "q", "u", "a", "l", " ", "t", "o">>>>,
    <<<<"<", ">">>,
      <<"n", "o", "t", " ", "e", "q", "u", "a", "l", " ", "t", "o">>>>,
    <<<<"<", "<">>,
      <<"l", "e", "f", "t", " ", "s", "h", "i", "f", "t">>>>,
    <<<<">", ">">>,
      <<"r", "i", "g", "h", "t", " ", "s", "h", "i", "f", "t">>>>,
    <<<<"_", "_">>,
      <<"d", "u", "n", "d", "e", "r">>>>,
    <<<<"=", "=">>,
      <<"d", "o", "u", "b", "l", "e", " ", "e", "q", "u", "a", "l", "s">>>>,
    <<<<"+", "+">>,
      <<"p", "l", "u", "s", " ", "p", "l", "u", "s">>>>,
    <<<<"-", "-">>,
      <<"m", "i", "n", "u", "s", " ", "m", "i", "n", "u", "s">>>>,
    <<<<"+", "=">>,
      <<"p", "l", "u", "s", " ", "e", "q", "u", "a", "l", "s">>>>,
    <<<<"-", "=">>,
      <<"m", "i", "n", "u", "s", " ", "e", "q", "u", "a", "l", "s">>>>,
    <<<<"[">>,
      <<"s", "q", "u", "a", "r", "e", " ", "b", "r", "a", "c", "k", "e", "t">>>>,
    <<<<"]">>,
      <<"c", "l", "o", "s", "e", " ", "b", "r", "a", "c", "k", "e", "t">>>>,
    <<<<"(">>,
      <<"o", "p", "e", "n", " ", "p", "a", "r", "e", "n">>>>,
    <<<<")">>,
      <<"c", "l", "o", "s", "e", " ", "p", "a", "r", "e", "n">>>>,
    <<<<"{">>,
      <<"o", "p", "e", "n", " ", "c", "u", "r", "l", "y", " ", "b", "r", "a", "c", "e">>>>,
    <<<<"}">>,
      <<"c", "l", "o", "s", "e", " ", "c", "u", "r", "l", "y", " ", "b", "r", "a", "c", "e">>>>,
    <<<<"<">>,
      <<"o", "p", "e", "n", " ", "a", "n", "g", "l", "e", " ", "b", "r", "a", "c", "k", "e", "t">>>>,
    <<<<">">>,
      <<"c", "l", "o", "s", "e", " ", "a", "n", "g", "l", "e", " ", "b", "r", "a", "c", "k", "e", "t">>>>,
    <<<<".">>,
      <<"d", "o", "t">>>>,
    <<<<"&">>,
      <<"r", "e", "f">>>>,
    <<<<"!">>,
      <<"b", "a", "n", "g">>>>,
    <<<<"#">>,
      <<"h", "a", "s", "h">>>>,
    <<<<"$">>,
      <<"d", "o", "l", "l", "a", "r", "s", "i", "g", "n">>>>,
    <<<<"%">>,
      <<"p", "e", "r", "c", "e", "n", "t">>>>,
    <<<<"^">>,
      <<"c", "a", "r", "e", "t">>>>,
    <<<<"*">>,
      <<"a", "s", "t", "e", "r", "i", "s", "k">>>>,
    <<<<"+">>,
      <<"p", "l", "u", "s">>>>,
    <<<<"-">>,
      <<"m", "i", "n", "u", "s">>>>,
    <<<<"=">>,
      <<"e", "q", "u", "a", "l", "s">>>>,
    <<<<"\\">>,
      <<"b", "a", "c", "k", "s", "l", "a", "s", "h">>>>,
    <<<<"|">>,
      <<"p", "i", "p", "e">>>>,
    <<<<"/">>,
      <<"s", "l", "a", "s", "h">>>>,
    <<<<"U+0060">>,
      <<"b", "a", "c", "k", "t", "i", "c", "k">>>>,
    <<<<"U+0027">>,
      <<"s", "i", "n", "g", "l", "e", "-", "q", "u", "o", "t", "e">>>>,
    <<<<",">>,
      <<"c", "o", "m", "m", "a">>>>,
    <<<<";">>,
      <<"s", "e", "m", "i", "c", "o", "l", "o", "n">>>>,
    <<<<":">>,
      <<"c", "o", "l", "o", "n">>>>,
    <<<<"\"">>,
      <<"d", "o", "u", "b", "l", "e", "-", "q", "u", "o", "t", "e">>>>,
    <<<<"?">>,
      <<"q", "u", "e", "s", "t", "i", "o", "n", "-", "m", "a", "r", "k">>>>,
    <<<<"_">>,
      <<"u", "n", "d", "e", "r", "s", "c", "o", "r", "e">>>>,
    <<<<"~">>,
      <<"t", "i", "l", "d", "e">>>>,
    <<<<"@">>,
      <<"a", "t", "-", "s", "i", "g", "n">>>>,
    <<<<"U+20AC">>,
      <<"e", "u", "r", "o">>>>,
    <<<<"U+00A3">>,
      <<"p", "o", "u", "n", "d">>>>,
    <<<<"U+00A5">>,
      <<"y", "e", "n">>>>
  >>

\* Whether `lit` occurs in `s` starting at index i (1-based).
MatchesAt(s, lit, i) ==
  /\ i + Len(lit) - 1 <= Len(s)
  /\ \A k \in 1..Len(lit) : s[i + k - 1] = lit[k]

RECURSIVE ReplaceFrom(_, _, _, _)
\* str::replace from index i on: every non-overlapping occurrence of `lit`,
\* found left to right, becomes `rep`; what lies between two occurrences
\* is copied.
ReplaceFrom(s, lit, rep, i) ==
  LET hits == { j \in i..Len(s) : MatchesAt(s, lit, j) }
      first == CHOOSE j \in hits : \A h \in hits : j <= h
  IN  IF hits = {} THEN SubSeq(s, i, Len(s))
      ELSE SubSeq(s, i, first - 1) \o rep \o ReplaceFrom(s, lit, rep, first + Len(lit))

\* A replace that puts the replacement at the end of the text when the
\* literal does not occur in it.
replace_or_append(s, lit, rep) ==
  IF \E i \in 1..Len(s) : MatchesAt(s, lit, i) THEN ReplaceFrom(s, lit, rep, 1) ELSE s \o rep

Replace(s, lit, rep) == ReplaceFrom(s, lit, rep, 1)

RECURSIVE ApplyRules(_, _)
\* The loop over replace_map: rule k rewrites what rules 1..k-1 produced
\* (no rule changes an empty text).
ApplyRules(text_copy, k) ==
  IF k > Len(replace_map) \/ text_copy = <<>> THEN text_copy
  ELSE ApplyRules(
         Replace(text_copy, replace_map[k][1], <<" ">> \o replace_map[k][2] \o <<" ">>),
         k + 1)

\* A tokenizer that returns the text as it is.
speak_unchanged(text) == text

string_to_speakable_tokens(text) == ApplyRules(text, 1)

---------------------------------------------------------------------------
(* Characters.  The characters the model's texts are made of, with the     *)
(* properties the code asks of them.                                       *)

AsciiLetters ==
  { "a", "b", "c", "d", "e", "f", "g", "h", "i", "j", "k", "l", "m",
    "n", "o", "p", "q", "r", "s", "t", "u", "v", "w", "x", "y", "z",
    "A", "B", "C", "D", "E", "F", "G", "H", "I", "J", "K", "L", "M",
    "N", "O", "P", "Q", "R", "S", "T", "U", "V", "W", "X", "Y", "Z" }

AsciiDigits == { "0", "1", "2", "3", "4", "5", "6", "7", "8", "9" }

\* U+0301, the combining acute accent: it extends the cluster before it.
CombiningAcute == "U+0301"

\* char::is_alphanumeric
is_alphanumeric(c) == c \in AsciiLetters \cup AsciiDigits

\* char::is_control
is_control(c) == c \in {"\t", "\n", "\r"}

\* char::len_utf8
len_utf8(c) ==
  IF c \in {"U+20AC"} THEN 3
  ELSE IF c \in {CombiningAcute, "U+00A3", "U+00A5"} THEN 2
  ELSE 1

RECURSIVE ByteLen(_)
\* str::len: the length of a string in bytes.
ByteLen(s) == IF s = <<>> THEN 0 ELSE len_utf8(Head(s)) + ByteLen(Tail(s))

RECURSIVE Concat(_)
\* The concatenation of a sequence of strings.
Concat(ss) == IF ss = <<>> THEN <<>> ELSE Head(ss) \o Concat(Tail(ss))

RECURSIVE Decimal(_)
\* format!("{}", n) for an unsigned n.
Decimal(n) ==
  LET digit == <<"0", "1", "2", "3", "4", "5", "6", "7", "8", "9">>
  IN  IF n < 10 THEN <<digit[n + 1]>>
      ELSE Decimal(n \div 10) \o <<digit[(n % 10) + 1]>>

\* str::find: the offset (in characters, from 0) of the first match, if any.
StrFind(s, query) ==
  LET hits == { i \in 1..(Len(s) + 1) : MatchesAt(s, query, i) }
  IN  IF hits = {} THEN None
      ELSE Some((CHOOSE i \in hits : \A j \in hits : i <= j) - 1)

---------------------------------------------------------------------------
(* unicode_segmentation: grapheme clusters and word bounds, for the        *)
(* characters above (UAX #29 rules GB3, GB4, GB5, GB9, GB999 and WB3,      *)
(* WB3a, WB3b, WB3d, WB4, WB5, WB8-WB10, WB999).                           *)

GraphemeControl == {"\t", "\n", "\r"}

GraphemeExtend == {CombiningAcute}

\* Whether a cluster ends between the adjacent characters prev and c.
GraphemeBreak(prev, c) ==
  IF prev = "\r" /\ c = "\n" THEN FALSE
  ELSE IF prev \in GraphemeControl \/ c \in GraphemeControl THEN TRUE
  ELSE c \notin GraphemeExtend

RECURSIVE GraphemesFrom(_, _, _)
\* graphemes(true) from character i on, `cur` being the cluster begun.
GraphemesFrom(s, i, cur) ==
  IF i > Len(s) THEN (IF cur = <<>> THEN <<>> ELSE <<cur>>)
  ELSE IF cur = <<>> \/ ~GraphemeBreak(s[i - 1], s[i])
       THEN GraphemesFrom(s, i + 1, Append(cur, s[i]))
       ELSE <<cur>> \o GraphemesFrom(s, i + 1, <<s[i]>>)

\* string[..].graphemes(true): the extended grapheme clusters, in order.
Graphemes(s) == GraphemesFrom(s, 1, <<>>)

WordNewline == {"\n", "\r"}

WordSegSpace == {" "}

\* Whether a word bound lies between the adjacent characters prev and c,
\* `base` being the last character before c that is not an Extend.
WordBreak(prev, base, c) ==
  IF prev = "\r" /\ c = "\n" THEN FALSE
  ELSE IF prev \in WordNewline \/ c \in WordNewline THEN TRUE
  ELSE IF prev \in WordSegSpace /\ c \in WordSegSpace THEN FALSE
  ELSE IF c \in GraphemeExtend THEN FALSE
  ELSE ~(is_alphanumeric(base) /\ is_alphanumeric(c))

RECURSIVE WordsFrom(_, _, _, _)
WordsFrom(s, i, cur, base) ==
  IF i > Len(s) THEN (IF cur = <<>> THEN <<>> ELSE <<cur>>)
  ELSE LET c == s[i]
           nextbase == IF c \in GraphemeExtend /\ cur # <<>> /\ s[i - 1] \notin WordNewline
                       THEN base ELSE c
       IN  IF cur = <<>> \/ ~WordBreak(s[i - 1], base, c)
           THEN WordsFrom(s, i + 1, Append(cur, c), nextbase)
           ELSE <<cur>> \o WordsFrom(s, i + 1, <<c>>, c)

\* split_word_bounds: the tokens between word bounds, in order.
WordBounds(s) == WordsFrom(s, 1, <<>>, "")

---------------------------------------------------------------------------
(* row.rs: Row, a string and its cached length in grapheme clusters.       *)
(* Indices count from 0, as in the code.                                   *)

Row_default == [string |-> <<>>, len |-> 0]

\* Row::update_len, as Row::from and Row::append call it.
update_len(row) == [row EXCEPT !.len = Len(Graphemes(row.string))]

Row_from(slice) == update_len([string |-> slice, len |-> 0])

\* Row::insert
Row_insert(row, at, c) ==
  IF at >= row.len
  THEN [string |-> Append(row.string, c), len |-> row.len + 1]
  ELSE LET gs == Graphemes(row.string)
       IN  [string |-> Concat([index \in 1..Len(gs) |->
                                 IF index - 1 = at THEN <<c>> \o gs[index] ELSE gs[index]]),
            len |-> Len(gs) + (IF at < Len(gs) THEN 1 ELSE 0)]

\* Row::delete
Row_delete(row, at) ==
  IF at >= row.len
  THEN row
  ELSE LET gs == Graphemes(row.string)
           kept == { index \in 1..Len(gs) : index - 1 # at }
       IN  [string |-> Concat([index \in 1..Len(gs) |->
                                 IF index \in kept THEN gs[index] ELSE <<>>]),
            len |-> Cardinality(kept)]

\* An append that puts the new row's text in front.
append_in_front(row, new) == update_len([row EXCEPT !.string = new.string \o row.string])

\* Row::append
Row_append(row, new) == update_len([row EXCEPT !.string = row.string \o new.string])

\* A split that keeps the clusters before `at` and returns an empty row.
split_drops_tail(row, at) ==
  LET gs == Graphemes(row.string)
      cut == IF at < Len(gs) THEN at ELSE Len(gs)
  IN  [head |-> [string |-> Concat(SubSeq(gs, 1, cut)), len |-> cut],
       tail |-> [string |-> <<>>, len |-> 0]]

\* Row::split: what is left of the row, and the row returned.
Row_split(row, at) ==
  LET gs == Graphemes(row.string)
      cut == IF at < Len(gs) THEN at ELSE Len(gs)
  IN  [head |-> [string |-> Concat(SubSeq(gs, 1, cut)), len |-> cut],
       tail |-> [string |-> Concat(SubSeq(gs, cut + 1, Len(gs))), len |-> Len(gs) - cut]]

\* The offsets (in characters, from 0) at which the clusters of s start.
GraphemeStarts(s) ==
  LET gs == Graphemes(s)
  IN  [index \in 1..Len(gs) |-> Len(Concat(SubSeq(gs, 1, index - 1)))]

\* Row::find: the index of the cluster that starts where the first match
\* starts, if one does.
Row_find(row, query) ==
  LET hit == StrFind(row.string, query)
      starts == GraphemeStarts(row.string)
      at == { index \in 1..Len(starts) : hit # None /\ starts[index] = hit[1] }
  IN  IF at = {} THEN None ELSE Some((CHOOSE index \in at : TRUE) - 1)

\* Row::get_tokens_and_indices: each token with the byte offset it starts at.
get_tokens_and_indices(row) ==
  LET ws == WordBounds(row.string)
  IN  [k \in 1..Len(ws) |->
         [start |-> ByteLen(Concat(SubSeq(ws, 1, k - 1))), token |-> ws[k]]]

\* Row::get_word_at: the first token whose end (a byte offset) is past `at`.
get_word_at(row, at) ==
  LET toks == get_tokens_and_indices(row)
      hits == { k \in 1..Len(toks) : toks[k].start + ByteLen(toks[k].token) > at }
  IN  IF hits = {} THEN None
      ELSE Some(toks[CHOOSE k \in hits : \A j \in hits : k <= j].token)

---------------------------------------------------------------------------
(* document.rs: Document, its rows, file name and dirty flag.              *)

Position(x, y) == [x |-> x, y |-> y]

Document_default == [rows |-> <<>>, file_name |-> None, dirty |-> FALSE]

RECURSIVE SplitLines(_, _)
\* str::split('\n'), `cur` being the piece begun.
SplitLines(s, cur) ==
  IF s = <<>> THEN <<cur>>
  ELSE IF Head(s) = "\n" THEN <<cur>> \o SplitLines(Tail(s), <<>>)
  ELSE SplitLines(Tail(s), Append(cur, Head(s)))

\* Document::open, of a file that was read.
Document_open(file, filename) ==
  LET pieces == SplitLines(file, <<>>)
  IN  [rows |-> [k \in 1..Len(pieces) |-> Row_from(pieces[k])],
       file_name |-> Some(filename),
       dirty |-> FALSE]

row_count(doc) == Len(doc.rows)

get_row(doc, index) == IF index < Len(doc.rows) THEN Some(doc.rows[index + 1]) ELSE None

\* An insert_newline that puts the row split off at the end of the document.
insert_newline_at_end(rows, at) ==
  IF at.y > Len(rows) THEN rows
  ELSE IF at.y = Len(rows) THEN Append(rows, Row_default)
  ELSE LET sp == Row_split(rows[at.y + 1], at.x)
       IN  SubSeq(rows, 1, at.y) \o <<sp.head>> \o SubSeq(rows, at.y + 2, Len(rows))
             \o <<sp.tail>>

\* Document::insert_newline: the rows it leaves.
insert_newline(rows, at) ==
  IF at.y > Len(rows) THEN rows
  ELSE IF at.y = Len(rows) THEN Append(rows, Row_default)
  ELSE LET sp == Row_split(rows[at.y + 1], at.x)
       IN  SubSeq(rows, 1, at.y) \o <<sp.head, sp.tail>> \o SubSeq(rows, at.y + 2, Len(rows))

\* An insert that adds no row: at row_count it does nothing but mark the
\* document dirty.
insert_within_rows(doc, at, c) ==
  IF at.y > row_count(doc) THEN doc
  ELSE IF at.y = row_count(doc) THEN [doc EXCEPT !.dirty = TRUE]
  ELSE IF c = "\n"
       THEN [doc EXCEPT !.dirty = TRUE, !.rows = insert_newline(doc.rows, at)]
  ELSE [doc EXCEPT !.dirty = TRUE, !.rows[at.y + 1] = Row_insert(@, at.x, c)]

\* Document::insert
Document_insert(doc, at, c) ==
  IF at.y > row_count(doc) THEN doc
  ELSE IF c = "\n"
       THEN [doc EXCEPT !.dirty = TRUE, !.rows = insert_newline(doc.rows, at)]
  ELSE IF at.y = row_count(doc)
       THEN [doc EXCEPT !.dirty = TRUE, !.rows = Append(@, Row_insert(Row_default, 0, c))]
  ELSE [doc EXCEPT !.dirty = TRUE, !.rows[at.y + 1] = Row_insert(@, at.x, c)]

\* A delete that marks the document dirty before it looks at the position.
delete_marks_first(doc, at) ==
  LET len == Len(doc.rows)
  IN  IF at.y >= len THEN [doc EXCEPT !.dirty = TRUE]
      ELSE IF at.x = doc.rows[at.y + 1].len /\ at.y + 1 < len
           THEN [doc EXCEPT !.dirty = TRUE,
                            !.rows = SubSeq(doc.rows, 1, at.y)
                                     \o <<Row_append(doc.rows[at.y + 1], doc.rows[at.y + 2])>>
                                     \o SubSeq(doc.rows, at.y + 3, len)]
      ELSE [doc EXCEPT !.dirty = TRUE, !.rows[at.y + 1] = Row_delete(@, at.x)]

\* Document::delete
Document_delete(doc, at) ==
  LET len == Len(doc.rows)
  IN  IF at.y >= len THEN doc
      ELSE IF at.x = doc.rows[at.y + 1].len /\ at.y + 1 < len
           THEN [doc EXCEPT !.dirty = TRUE,
                            !.rows = SubSeq(doc.rows, 1, at.y)
                                     \o <<Row_append(doc.rows[at.y + 1], doc.rows[at.y + 2])>>
                                     \o SubSeq(doc.rows, at.y + 3, len)]
      ELSE [doc EXCEPT !.dirty = TRUE, !.rows[at.y + 1] = Row_delete(@, at.x)]

\* Document::save: what is written to the file, each row followed by "\n".
FileContents(doc) ==
  Concat([k \in 1..Len(doc.rows) |-> doc.rows[k].string \o <<"\n">>])

\* A save that clears the dirty flag whatever became of the write.
save_always_clean(doc, written) == [doc EXCEPT !.dirty = FALSE]

\* Document::save: the document after it, `written` telling whether
\* File::create and every write_all succeeded.
Document_save(doc, written) ==
  IF doc.file_name # None /\ written THEN [doc EXCEPT !.dirty = FALSE] ELSE doc

\* Document::save: whether it returns Ok.
Document_save_is_ok(doc, written) == doc.file_name = None \/ written

\* Document::find: the first row, from the top, in which Row::find finds
\* the query.
Document_find(doc, query) ==
  LET hits == { y \in 1..Len(doc.rows) : Row_find(doc.rows[y], query) # None }
  IN  IF hits = {} THEN None
      ELSE LET y == CHOOSE y \in hits : \A j \in hits : y <= j
           IN  Some(Position(Row_find(doc.rows[y], query)[1], y - 1))

---------------------------------------------------------------------------
(* sound.rs: the sounds.  A Tone's frequency is in Hz (rounded), its       *)
(* duration in milliseconds and its volume in percent.                     *)

Tone(frequency, duration, volume) ==
  [kind |-> "Tone", frequency |-> frequency, duration |-> duration, volume |-> volume]

Utterance(text) == [kind |-> "Utterance", text |-> text]

\* The argument of a call that takes no sound.
NoSound == [kind |-> "NoSound"]

---------------------------------------------------------------------------
(* sound.rs: the SoundManager's methods, as functions of its fields.       *)

SoundManager_new ==
  [queue |-> <<>>, current_sound |-> None, current_child_process |-> None]

play_next(sm, s) == [sm EXCEPT !.queue = <<s>> \o @]

\* A play that pushes to the front, as play_next does.
play_front(sm, s) == [sm EXCEPT !.queue = <<s>> \o @]

play(sm, s) == [sm EXCEPT !.queue = Append(@, s)]

\* A clear that drops the front of the queue only.
clear_front_only(sm) == [sm EXCEPT !.queue = IF @ = <<>> THEN @ ELSE Tail(@)]

clear(sm) == [sm EXCEPT !.queue = <<>>]

\* A kill that empties the queue as well.
kill_and_clear(sm) ==
  [sm EXCEPT !.queue = <<>>, !.current_sound = None, !.current_child_process = None]

\* kill(): the fields it leaves behind.
kill(sm) == [sm EXCEPT !.current_sound = None, !.current_child_process = None]

\* kill(): child_process.kill() reaches the process the handle names, when
\* the manager holds one.
kill_child(sm, ch) ==
  IF sm.current_child_process # None /\ ch # None
  THEN Some([ch[1] EXCEPT !.signal = "kill"])
  ELSE ch

\* An interrupt that queues its sound at the back.
interrupt_and_append(sm, interrupt_sound) ==
  [sm EXCEPT !.queue = Append(@, interrupt_sound),
             !.current_sound = None, !.current_child_process = None]

interrupt_and_play(sm, interrupt_sound) == play_next(kill(sm), interrupt_sound)

\* A clear_and_play that forgets to clear.
play_next_uncleared(sm, s) == [sm EXCEPT !.queue = <<s>> \o @]

clear_and_play(sm, s) == play_next(clear(sm), s)

\* speak_next_or_wait(), once its loop has found the queue empty.
speak_next_or_wait_exit(sm) ==
  [sm EXCEPT !.current_sound = None, !.current_child_process = None]

---------------------------------------------------------------------------
(* row.rs: Row::play.                                                      *)

RECURSIVE TakeWhileCount(_, _)
\* chars().take_while(|c| *c == ch).count()
TakeWhileCount(string, ch) ==
  IF string # <<>> /\ Head(string) = ch
  THEN 1 + TakeWhileCount(Tail(string), ch)
  ELSE 0

indent_level(string) ==
  TakeWhileCount(string, "\t") + (TakeWhileCount(string, " ") \div 4)

\* The `tones` of Row::play.
tones ==
  << Tone(293, 150, 50), Tone(329, 150, 50), Tone(371, 150, 50),
     Tone(440, 150, 50), Tone(495, 150, 50) >>

Call(op, arg) == [op |-> op, arg |-> arg, row |-> <<>>]

\* The calls Row::play makes on the manager, in order: one play_and_wait
\* per indent level, then play of the row's utterance.
Row_play(string) ==
  [indent \in 1..indent_level(string) |->
     Call("play_and_wait", tones[((indent - 1) % Len(tones)) + 1])]
  \o << Call("play", Utterance(string_to_speakable_tokens(string))) >>

\* sound::PENTATONIC_SCALE, the tones of Row::play_blocking.
PENTATONIC_SCALE == <<277, 311, 370, 415, 466>>

\* The calls Row::play_blocking makes: every sound through play_and_wait.
Row_play_blocking(string) ==
  [indent \in 1..indent_level(string) |->
     Call("play_and_wait",
          Tone(PENTATONIC_SCALE[((indent - 1) % Len(PENTATONIC_SCALE)) + 1], 150, 50))]
  \o << Call("play_and_wait", Utterance(string_to_speakable_tokens(string))) >>

---------------------------------------------------------------------------
(* editor.rs: the keys, the editor's fields and its sounds.                *)

QuitWithoutSavingText ==
  <<"Q", "u", "i", "t", " ", "w", "i", "t", "h", "o", "u", "t", " ", "s", "a", "v", "i", "n", "g", "?">>

FindText ==
  <<"F", "i", "n", "d", ".">>

SaveAsText ==
  <<"S", "a", "v", "e", " ", "a", "s", " ">>

SaveAbortedText ==
  <<"S", "a", "v", "e", " ", "a", "b", "o", "r", "t", "e", "d", ".">>

SavedText ==
  <<"S", "a", "v", "e", "d", ".", " ">>

ErrorWritingFileText ==
  <<"E", "r", "r", "o", "r", " ", "w", "r", "i", "t", "i", "n", "g", " ", "f", "i", "l", "e", "!">>

\* format!("Row {}, column {}", y + 1, x + 1)
RowColumnText(y, x) ==
  <<"R", "o", "w", " ">> \o Decimal(y + 1) \o <<",", " ", "c", "o", "l", "u", "m", "n", " ">> \o Decimal(x + 1)

\* format!("Row {}, Column {}.", y + 1, x + 1)
LocationText(y, x) ==
  <<"R", "o", "w", " ">> \o Decimal(y + 1) \o <<",", " ", "C", "o", "l", "u", "m", "n", " ">> \o Decimal(x + 1) \o <<".">>

\* format!("Saved {}.", file_name)
SavedFileText(file_name) ==
  <<"S", "a", "v", "e", "d", " ">> \o file_name \o <<".">>

Ctrl(c) == [kind |-> "Ctrl", c |-> c]

Alt(c) == [kind |-> "Alt", c |-> c]

Char(c) == [kind |-> "Char", c |-> c]

\* A key without a character: Key::Up, Key::Esc, ...
Named(kind) == [kind |-> kind, c |-> ""]

Editor_default(document) ==
  [should_quit |-> "Default", cursor_position |-> Position(0, 0), document |-> document]

wrap_arrow_key_navigation == FALSE

\* What a method of the editor leaves: the editor's fields and, in order,
\* the calls it has made on the sound manager.
Ret(ed, calls) == [ed |-> ed, calls |-> calls]

\* self.sound_manager.play_next_or_wait(), the drain the main loop ends
\* each cycle with.
play_next_or_wait == [op |-> "speak_next_or_wait", arg |-> NoSound, row |-> <<>>]

\* self.sound_manager.prepend(sound): the sound goes to the front of the queue.
prepend(s) == [op |-> "play_next", arg |-> s, row |-> <<>>]

change_mode(mode) ==
  IF mode = "Editing"
  THEN << Call("play_and_wait", Tone(440, 60, 50)), Call("play_and_wait", Tone(660, 100, 50)) >>
  ELSE << Call("play_and_wait", Tone(660, 100, 50)), Call("play_and_wait", Tone(440, 60, 50)) >>

play_success_sound == << Call("play_and_wait", Tone(880, 60, 50)) >>

play_noop_sound ==
  << Call("play_and_wait", Tone(660, 10, 25)),
     Call("play_and_wait", Tone(660, 10, 25)),
     Call("play_and_wait", Tone(660, 10, 25)) >>

play_blocked_navigation_sound == << Call("play_and_wait", Tone(440, 200, 50)) >>

\* self.document.get_row(self.cursor_position.y).unwrap_or(&Row::from(""))
current_row(ed) ==
  LET row == get_row(ed.document, ed.cursor_position.y)
  IN  IF row = None THEN Row_from(<<>>) ELSE row[1]

speak_current_row(ed) ==
  << [op |-> "play_row", arg |-> NoSound, row |-> current_row(ed).string] >>

get_current_word(ed) ==
  LET x == ed.cursor_position.x
      word == get_word_at(current_row(ed), IF x = 0 THEN 0 ELSE x - 1)
  IN  IF word = None THEN <<>> ELSE word[1]

speak_current_word(ed) ==
  << Call("play_and_wait", Utterance(string_to_speakable_tokens(get_current_word(ed)))) >>

speak_character(c) ==
  << Call("play_and_wait", Utterance(string_to_speakable_tokens(<<c>>))) >>

say_current_location(ed) ==
  << Call("interrupt_and_play",
          Utterance(LocationText(ed.cursor_position.y, ed.cursor_position.x))) >>

\* Key::Alt('.'): each character of the word at the cursor, followed by ", ".
letters_with_spaces(ed) ==
  LET found == get_word_at(current_row(ed), ed.cursor_position.x)
      word == IF found = None THEN <<>> ELSE found[1]
  IN  Concat([k \in 1..Len(word) |-> <<word[k], ",", " ">>])

\* row.len() of row y, or 0 where there is no such row.
width_at(ed, y) ==
  LET row == get_row(ed.document, y)
  IN  IF row = None THEN 0 ELSE row[1].len

\* Editor::move_cursor
move_cursor(ed, key, wrapping_behavior) ==
  LET should_wrap_operations ==
        CASE wrapping_behavior = "Default" -> wrap_arrow_key_navigation
          [] wrapping_behavior = "Wrap" -> TRUE
          [] wrapping_behavior = "NoWrap" -> FALSE
      x == ed.cursor_position.x
      y == ed.cursor_position.y
      height == row_count(ed.document)
      width == width_at(ed, y)
      to(nx, ny) == [x |-> nx, y |-> ny, blocked |-> FALSE]
      blocked(nx, ny) == [x |-> nx, y |-> ny, blocked |-> TRUE]
      moved ==
        CASE key = "Up" -> IF y = 0 THEN blocked(x, 0) ELSE to(x, y - 1)
          [] key = "Down" -> IF y < height THEN to(x, y + 1) ELSE to(x, y)
          [] key = "Left" ->
               IF x > 0 THEN to(x - 1, y)
               ELSE IF y > 0 /\ should_wrap_operations THEN to(width_at(ed, y - 1), y - 1)
               ELSE blocked(x, y)
          [] key = "Right" ->
               IF x < width THEN to(x + 1, y)
               ELSE IF y < height /\ should_wrap_operations THEN to(0, y + 1)
               ELSE blocked(x, y)
          [] key = "PageUp" -> to(x, IF y > TermHeight THEN y - TermHeight ELSE 0)
          [] key = "PageDown" ->
               to(x, IF y + TermHeight < height THEN y + TermHeight ELSE height)
          [] key = "Home" -> to(0, y)
          [] key = "End" -> to(width, y)
          [] OTHER -> to(x, y)
      new_width == width_at(ed, moved.y)
  IN  Ret([ed EXCEPT !.cursor_position =
                       Position(IF moved.x > new_width THEN new_width ELSE moved.x, moved.y)],
          IF moved.blocked THEN play_blocked_navigation_sound ELSE <<>>)

\* Editor::insert_carriage_return
insert_carriage_return(ed) ==
  move_cursor([ed EXCEPT !.document = Document_insert(@, ed.cursor_position, "\n")],
              "Right", "Wrap")

ArrowKeys == {"Up", "Down", "Left", "Right", "PageUp", "PageDown", "End", "Home"}

\* Editor::process_keypress, for every key but Ctrl-s and Ctrl-f (which read
\* more keys before they return).
process_keypress(ed, pressed_key) ==
  LET c == pressed_key.c
  IN  CASE pressed_key = Ctrl("q") ->
             IF ed.document.dirty /\ ed.should_quit = "Default"
             THEN Ret([ed EXCEPT !.should_quit = "Confirming"],
                      << Call("interrupt_and_play", Utterance(QuitWithoutSavingText)) >>)
             ELSE Ret([ed EXCEPT !.should_quit = "Quitting"], change_mode("Quitting"))
        [] pressed_key = Alt(";") ->
             Ret(ed, << prepend(Utterance(RowColumnText(ed.cursor_position.y,
                                                        ed.cursor_position.x))) >>)
        [] pressed_key = Alt("l") -> Ret(ed, speak_current_row(ed))
        [] pressed_key = Alt(".") ->
             Ret(ed, << Call("play_and_wait", Utterance(letters_with_spaces(ed))) >>)
        [] pressed_key = Alt("j") ->
             LET moved == move_cursor(ed, "Down", "Default")
             IN  Ret(moved.ed, speak_current_row(ed) \o moved.calls)
        [] pressed_key.kind = "Char" /\ c = "\n" -> insert_carriage_return(ed)
        [] pressed_key.kind = "Char" /\ c # "\n" ->
             LET spoken == IF is_alphanumeric(c) THEN <<>>
                           ELSE (IF \A k \in 1..Len(get_current_word(ed)) :
                                      is_alphanumeric(get_current_word(ed)[k])
                                 THEN speak_current_word(ed) ELSE <<>>)
                                \o speak_character(c)
                 moved == move_cursor(
                            [ed EXCEPT !.document = Document_insert(@, ed.cursor_position, c)],
                            "Right", "Wrap")
             IN  Ret(moved.ed, spoken \o moved.calls)
        [] pressed_key = Named("Delete") ->
             Ret([ed EXCEPT !.document = Document_delete(@, ed.cursor_position)], <<>>)
        [] pressed_key = Named("Backspace") ->
             IF ed.cursor_position.x > 0 \/ ed.cursor_position.y > 0
             THEN LET moved == move_cursor(ed, "Left", "Wrap")
                  IN  Ret([moved.ed EXCEPT !.document =
                                             Document_delete(@, moved.ed.cursor_position)],
                          moved.calls)
             ELSE Ret(ed, <<>>)
        [] pressed_key.kind \in ArrowKeys -> move_cursor(ed, pressed_key.kind, "Default")
        [] OTHER -> Ret(ed, <<>>)

\* The locals of Editor::prompt (result) and Editor::search (direction,
\* old_position) while no prompt is open.
NoPrompt == [result |-> <<>>, direction |-> "Forward", old_position |-> Position(0, 0)]

---------------------------------------------------------------------------
(* The state after construction.                                           *)

NoCall == [op |-> "none", arg |-> NoSound, pre |-> SoundManager_new, pre_child |-> None]

\* A call on a Row: the method, its arguments `at` and `c`, the row it was
\* called on (pre), the other row of the call (the row split returns, the
\* row append is given) and, when the call undoes the call before it (a
\* delete at the index of the insert before it, an append of the row the
\* split before it returned), the row that call was made on (before).
RowCall(op, at_, c, pre, other, before) ==
  [op |-> op, at |-> at_, c |-> c, pre |-> pre, other |-> other, before |-> before]

\* A call on a Document: the method, its arguments `at` and `c`, the
\* document it was called on (pre), for save what became of the write, and
\* the number of calls made so far (n).
DocCall(op, at_, c, pre, outcome, n) ==
  [op |-> op, at |-> at_, c |-> c, pre |-> pre, outcome |-> outcome, n |-> n]

\* The outcome of a call that writes no file.
NoOutcome == [kind |-> "none", rows_written |-> 0]

\* No Row is called directly.
NoRow ==
  /\ the_row = Row_default
  /\ row_call = RowCall("none", 0, "", Row_default, Row_default, None)

\* No Document is called directly.
NoDocument ==
  /\ the_document = Document_default
  /\ doc_call = DocCall("none", Position(0, 0), "", Document_default, NoOutcome, 0)

\* No editor runs.
NoEditor ==
  /\ editor = Editor_default(Document_default)
  /\ reads_at = "caller"
  /\ prompt = NoPrompt
  /\ keys_read = 0
  /\ disk = None

\* SoundManager::new, before any call.
SoundManagerInit ==
  /\ sound_manager = SoundManager_new
  /\ pc = "idle"
  /\ sound = None
  /\ child = None
  /\ script = <<>>
  /\ played = <<>>
  /\ call = NoCall
  /\ prev_call = NoCall
  /\ fifo_run = <<>>

\* A call of Row::find, Row::get_word_at or Document::find: the function,
\* its arguments (of `from` and `direction` the call in Editor::search gives
\* to Document::find, and of `at`, those the function has) and what it
\* returned.
Lookup(op, query, from, direction, at_, result) ==
  [op |-> op, query |-> query, from |-> from, direction |-> direction,
   at |-> at_, result |-> result]

\* No lookup has been made.
NoLookup == lookup = Lookup("none", <<>>, Position(0, 0), "Forward", 0, None)

\* Nothing has been given to string_to_speakable_tokens.
NoSpeech == speech = [text |-> <<>>, once |-> None, twice |-> None]

\* No configuration is read: there is no configuration file.
NoConfig ==
  config = [file |-> [home |-> TRUE, exists |-> FALSE, readable |-> FALSE, parsed |-> None],
            config |-> None, rate_wpm |-> None, said_at |-> None, panicked |-> FALSE]

Init ==
  SoundManagerInit /\ NoEditor /\ NoRow /\ NoDocument /\ NoLookup /\ NoSpeech /\ NoConfig

\* The caller is between two SoundManager calls and has none left to make.
Done == pc = "idle" /\ script = <<>>

---------------------------------------------------------------------------
(* Playback: Audible::play_and_wait for Tone and Utterance.                *)

\* play_and_wait begins: the output device opens (Tone) or `say` starts
\* (Utterance) and the thread blocks at `where`; when either fails, unwrap()
\* panics.
StartPlaying(s, where) ==
  \E ok \in BOOLEAN :
    IF ok
    THEN /\ pc' = where
         /\ sound' = Some(s)
         /\ child' = IF s.kind = "Utterance"
                     THEN Some([text |-> s.text, signal |-> "none"])
                     ELSE None
    ELSE /\ pc' = "panicked"
         /\ sound' = None
         /\ child' = None

\* A drain written with `if let` where the code has `while let`: it returns
\* after the first sound.
PlaybackEndsOnce ==
  /\ pc \in {"drain_play", "wait_play"}
  /\ played' = Append(played, sound[1])
  /\ sound' = None
  /\ child' = None
  /\ pc' = "idle"
  /\ sound_manager' = IF pc = "drain_play"
                      THEN [sound_manager EXCEPT !.current_sound = None,
                                                 !.current_child_process = None]
                      ELSE sound_manager
  /\ UNCHANGED <<script, call, prev_call, fifo_run, editor_vars, row_vars, doc_vars, fn_vars>>

\* sleep_until_end() or Command::output() returns: the sound has been played
\* to its end and the process, if any, is gone.
PlaybackEnds ==
  /\ pc \in {"drain_play", "wait_play"}
  /\ played' = Append(played, sound[1])
  /\ sound' = None
  /\ child' = None
  /\ pc' = IF pc = "drain_play" THEN "drain_loop" ELSE "idle"
  /\ UNCHANGED <<sound_manager, script, call, prev_call, fifo_run, editor_vars, row_vars, doc_vars, fn_vars>>

---------------------------------------------------------------------------
(* The caller's next SoundManager call, taken from the script.             *)

NextIs(op) == pc = "idle" /\ script # <<>> /\ Head(script).op = op

\* A play that plays its sound at once instead of queueing it.
ExecPlayAtOnce ==
  /\ NextIs("play")
  /\ StartPlaying(Head(script).arg, "wait_play")
  /\ script' = Tail(script)
  /\ UNCHANGED <<sound_manager, played, call, prev_call, fifo_run, editor_vars, row_vars, doc_vars, fn_vars>>

ExecPlay ==
  /\ NextIs("play")
  /\ sound_manager' = play(sound_manager, Head(script).arg)
  /\ script' = Tail(script)
  /\ UNCHANGED <<pc, sound, child, played, call, prev_call, fifo_run, editor_vars, row_vars, doc_vars, fn_vars>>

ExecPlayNext ==
  /\ NextIs("play_next")
  /\ sound_manager' = play_next(sound_manager, Head(script).arg)
  /\ script' = Tail(script)
  /\ UNCHANGED <<pc, sound, child, played, call, prev_call, fifo_run, editor_vars, row_vars, doc_vars, fn_vars>>

ExecClear ==
  /\ NextIs("clear")
  /\ sound_manager' = clear(sound_manager)
  /\ script' = Tail(script)
  /\ UNCHANGED <<pc, sound, child, played, call, prev_call, fifo_run, editor_vars, row_vars, doc_vars, fn_vars>>

ExecKill ==
  /\ NextIs("kill")
  /\ sound_manager' = kill(sound_manager)
  /\ child' = kill_child(sound_manager, child)
  /\ script' = Tail(script)
  /\ UNCHANGED <<pc, sound, played, call, prev_call, fifo_run, editor_vars, row_vars, doc_vars, fn_vars>>

ExecInterruptAndPlay ==
  /\ NextIs("interrupt_and_play")
  /\ sound_manager' = interrupt_and_play(sound_manager, Head(script).arg)
  /\ child' = kill_child(sound_manager, child)
  /\ script' = Tail(script)
  /\ UNCHANGED <<pc, sound, played, call, prev_call, fifo_run, editor_vars, row_vars, doc_vars, fn_vars>>

ExecClearAndPlay ==
  /\ NextIs("clear_and_play")
  /\ sound_manager' = clear_and_play(sound_manager, Head(script).arg)
  /\ script' = Tail(script)
  /\ UNCHANGED <<pc, sound, child, played, call, prev_call, fifo_run, editor_vars, row_vars, doc_vars, fn_vars>>

\* SoundManager::play_and_wait: plays the sound at once, blocking.
ExecPlayAndWait ==
  /\ NextIs("play_and_wait")
  /\ StartPlaying(Head(script).arg, "wait_play")
  /\ script' = Tail(script)
  /\ UNCHANGED <<sound_manager, played, call, prev_call, fifo_run, editor_vars, row_vars, doc_vars, fn_vars>>

\* SoundManager::play_row: row.play(self).
ExecPlayRow ==
  /\ NextIs("play_row")
  /\ script' = Row_play(Head(script).row) \o Tail(script)
  /\ UNCHANGED <<sound_manager, pc, sound, child, played, call, prev_call, fifo_run, editor_vars, row_vars, doc_vars, fn_vars>>

\* SoundManager::play_row_and_wait: row.play_blocking(self).
ExecPlayRowAndWait ==
  /\ NextIs("play_row_and_wait")
  /\ script' = Row_play_blocking(Head(script).row) \o Tail(script)
  /\ UNCHANGED <<sound_manager, pc, sound, child, played, call, prev_call, fifo_run, editor_vars, row_vars, doc_vars, fn_vars>>

\* SoundManager::speak_next_or_wait is entered.
ExecSpeakNextOrWait ==
  /\ NextIs("speak_next_or_wait")
  /\ pc' = "drain_loop"
  /\ script' = Tail(script)
  /\ UNCHANGED <<sound_manager, sound, child, played, call, prev_call, fifo_run, editor_vars, row_vars, doc_vars, fn_vars>>

\* while let Some(sound) = self.queue.pop_front() { sound.play_and_wait() }
DrainPop ==
  /\ pc = "drain_loop"
  /\ sound_manager.queue # <<>>
  /\ sound_manager' = [sound_manager EXCEPT !.queue = Tail(@)]
  /\ StartPlaying(Head(sound_manager.queue), "drain_play")
  /\ UNCHANGED <<script, played, call, prev_call, fifo_run, editor_vars, row_vars, doc_vars, fn_vars>>

\* The loop finds the queue empty: the two fields are reset and the call returns.
DrainExit ==
  /\ pc = "drain_loop"
  /\ sound_manager.queue = <<>>
  /\ sound_manager' = speak_next_or_wait_exit(sound_manager)
  /\ pc' = "idle"
  /\ UNCHANGED <<sound, child, script, played, call, prev_call, fifo_run, editor_vars, row_vars, doc_vars, fn_vars>>

\* The steps of the thread inside the SoundManager.
Step ==
  \/ ExecPlay \/ ExecPlayNext \/ ExecClear \/ ExecKill
  \/ ExecInterruptAndPlay \/ ExecClearAndPlay
  \/ ExecPlayAndWait \/ ExecPlayRow \/ ExecPlayRowAndWait
  \/ ExecSpeakNextOrWait \/ DrainPop \/ DrainExit \/ PlaybackEnds

---------------------------------------------------------------------------
(* A caller of the SoundManager's public methods, in any order.            *)

\* The sounds and rows the caller draws its arguments from.
SampleSounds ==
  { Tone(440, 60, 50), Utterance(<<"a">>), Utterance(<<"b">>) }

SampleRows ==
  { <<"\t", "\t", "a">>, <<" ", " ", " ", " ", "=">> }

SoundOps == {"play", "play_next", "interrupt_and_play", "clear_and_play", "play_and_wait"}

RowOps == {"play_row", "play_row_and_wait"}

PlainOps == {"clear", "kill", "speak_next_or_wait"}

\* Whether the call adds to the queue.
Grows(op) == op \in {"play", "play_next", "interrupt_and_play", "play_row"}

Request(op, arg, row) ==
  /\ Done
  /\ Grows(op) => Len(sound_manager.queue) < MaxQueue
  /\ script' = << [op |-> op, arg |-> arg, row |-> row] >>
  /\ call' = [op |-> op, arg |-> arg, pre |-> sound_manager, pre_child |-> child]
  /\ prev_call' = IF call.op = "interrupt_and_play"
                     /\ op \in {"interrupt_and_play", "speak_next_or_wait"}
                  THEN call
                  ELSE NoCall
  /\ played' = <<>>
  /\ fifo_run' = CASE op = "play" ->
                        IF call.op = "play" THEN Append(fifo_run, arg) ELSE <<arg>>
                   [] op = "speak_next_or_wait" ->
                        IF call.op = "play" THEN fifo_run ELSE <<>>
                   [] OTHER -> <<>>
  /\ UNCHANGED <<sound_manager, pc, sound, child, editor_vars, row_vars, doc_vars, fn_vars>>

CallerRequests ==
  \/ \E op \in SoundOps, s \in SampleSounds : Request(op, s, <<>>)
  \/ \E op \in RowOps, row \in SampleRows : Request(op, NoSound, row)
  \/ \E op \in PlainOps : Request(op, NoSound, <<>>)

Next == CallerRequests \/ Step

Spec == Init /\ [][Next]_vars

\* The thread never stops of its own accord inside speak_next_or_wait: the
\* call is entered, its loop goes on, and a sound that has started ends.
FairSpec ==
  /\ Spec
  /\ WF_vars(ExecSpeakNextOrWait)
  /\ WF_vars(DrainPop)
  /\ WF_vars(DrainExit)
  /\ WF_vars(PlaybackEnds)

---------------------------------------------------------------------------
(* editor.rs: Editor::prompt, Editor::search and Editor::save.             *)

\* Editor::prompt, the match on the key read: the result it leaves, whether
\* the loop breaks, and whether String::truncate panics (the new length is
\* not on a character boundary).
prompt_key(result, key) ==
  LET stays(r) == [result |-> r, break |-> FALSE, panics |-> FALSE]
  IN  CASE key = Named("Backspace") ->
             IF result = <<>> THEN stays(result)
             ELSE IF len_utf8(result[Len(result)]) = 1
                  THEN stays(SubSeq(result, 1, Len(result) - 1))
                  ELSE [result |-> result, break |-> FALSE, panics |-> TRUE]
        [] key = Char("\n") -> [result |-> result, break |-> TRUE, panics |-> FALSE]
        [] key.kind = "Char" /\ key.c # "\n" ->
             stays(IF is_control(key.c) THEN result ELSE Append(result, key.c))
        [] key = Named("Esc") -> [result |-> <<>>, break |-> TRUE, panics |-> FALSE]
        [] OTHER -> stays(result)

\* The closure Editor::search passes to prompt.
search_callback(ed, key, query, direction) ==
  LET forward == key \in {Named("Right"), Named("Down"), Ctrl("f")}
      backward == key \in {Named("Left"), Named("Up"), Ctrl("b")}
      moved == forward \/ backward
      step == IF forward THEN move_cursor(ed, "Right", "Wrap")
              ELSE IF backward THEN move_cursor(ed, "Left", "Wrap")
              ELSE Ret(ed, <<>>)
      spoken == IF moved THEN step.calls \o speak_current_row(step.ed) ELSE <<>>
      found == Document_find(step.ed.document, query)
      back == move_cursor(step.ed, "Left", "Wrap")
  IN  [ed |-> IF found # None THEN [step.ed EXCEPT !.cursor_position = found[1]]
              ELSE IF moved THEN back.ed
              ELSE step.ed,
       calls |-> spoken \o (IF found # None THEN play_success_sound
                            ELSE IF moved THEN back.calls
                            ELSE <<>>),
       direction |-> IF forward THEN "Forward"
                     ELSE IF backward THEN "Backward"
                     ELSE direction]

\* Editor::search, after prompt has returned.
search_end(ed, old_position) ==
  LET back == [ed EXCEPT !.cursor_position = old_position]
  IN  Ret(back, play_noop_sound \o say_current_location(back))

\* What Document::save does to the file: it is created and every row is
\* written, or File::create fails, or a write_all fails after the file was
\* created and `rows_written` rows were written.
SaveOutcomes(doc) ==
  {[kind |-> "written", rows_written |-> Len(doc.rows)],
   [kind |-> "create_failed", rows_written |-> 0]}
  \cup {[kind |-> "write_failed", rows_written |-> k] : k \in 0..(Len(doc.rows) - 1)}

\* The file after Document::save.
FileAfterSave(doc, file, outcome) ==
  IF doc.file_name = None \/ outcome.kind = "create_failed" THEN file
  ELSE Some(FileContents([doc EXCEPT !.rows = SubSeq(@, 1, outcome.rows_written)]))

\* Editor::save, from `if self.document.save().is_ok()` on.
save_document(ed, outcome) ==
  LET written == outcome.kind = "written"
      saved == [ed EXCEPT !.document = Document_save(@, written)]
  IN  IF Document_save_is_ok(ed.document, written)
      THEN Ret(saved,
               << Call("interrupt_and_play", Utterance(SavedText)),
                  Call("interrupt_and_play", Utterance(SavedFileText(ed.document.file_name[1]))) >>)
      ELSE Ret(saved, << Call("interrupt_and_play", Utterance(ErrorWritingFileText)) >>)

---------------------------------------------------------------------------
(* editor.rs: Editor::run.  Each action below is one Terminal::read_key    *)
(* with all the editor does before it next calls the sound manager; the    *)
(* calls it makes until it reads a key again are put in `script`.          *)

\* The keys the terminal delivers.
TypedChars == {"a", "=", "\n", CombiningAcute}

Keys ==
  {Ctrl(c) : c \in {"q", "s", "f", "b"}}
  \cup {Alt(c) : c \in {";", "l", ".", "j", "x"}}
  \cup {Char(c) : c \in TypedChars}
  \cup {Named(kind) : kind \in ArrowKeys \cup {"Delete", "Backspace", "Esc", "Insert"}}

\* The files the editor is started on: none, or a file of two rows.
SampleFiles == { None, Some(<<"\t", "a", "=", "\n", "b">>) }

SampleFileName == <<"f">>

\* Editor::default and the first statement of Editor::run.
EditorInit ==
  /\ \E file \in SampleFiles :
       /\ disk = file
       /\ editor = Editor_default(IF file = None THEN Document_default
                                  ELSE Document_open(file[1], SampleFileName))
  /\ reads_at = "read_key"
  /\ prompt = NoPrompt
  /\ keys_read = 0
  /\ sound_manager = SoundManager_new
  /\ pc = "idle"
  /\ sound = None
  /\ child = None
  /\ script = change_mode("Editing")
  /\ played = <<>>
  /\ call = NoCall
  /\ prev_call = NoCall
  /\ fifo_run = <<>>
  /\ NoRow
  /\ NoDocument
  /\ NoLookup
  /\ NoSpeech
  /\ NoConfig

\* The thread is about to call Terminal::read_key at `where`.
ReadsKeyAt(where) ==
  /\ Done
  /\ reads_at = where
  /\ keys_read < MaxKeys
  /\ keys_read' = keys_read + 1
  /\ played' = <<>>
  /\ UNCHANGED <<sound_manager, pc, sound, child, call, prev_call, fifo_run,
                 row_vars, doc_vars, fn_vars>>

\* The main loop finds should_quit == Quitting and breaks.
Quit ==
  /\ Done
  /\ reads_at = "read_key"
  /\ editor.should_quit = "Quitting"
  /\ reads_at' = "exited"
  /\ UNCHANGED <<sound_manager, pc, sound, child, script, played, call, prev_call,
                 fifo_run, editor, prompt, keys_read, disk, row_vars, doc_vars, fn_vars>>

\* A main loop that drains only after the keys that made a sound.
KeyPressDrainsIfSound ==
  /\ ReadsKeyAt("read_key")
  /\ editor.should_quit # "Quitting"
  /\ \E key \in Keys \ {Ctrl("s"), Ctrl("f")} :
       LET handled == process_keypress(editor, key)
       IN  /\ editor' = handled.ed
           /\ script' = IF handled.calls = <<>> THEN <<>>
                        ELSE handled.calls \o <<play_next_or_wait>>
  /\ UNCHANGED <<reads_at, prompt, disk>>

\* process_keypress for a key it handles without reading another, then the
\* drain of the main loop.
KeyPress ==
  /\ ReadsKeyAt("read_key")
  /\ editor.should_quit # "Quitting"
  /\ \E key \in Keys \ {Ctrl("s"), Ctrl("f")} :
       LET handled == process_keypress(editor, key)
       IN  /\ editor' = handled.ed
           /\ script' = handled.calls \o <<play_next_or_wait>>
  /\ UNCHANGED <<reads_at, prompt, disk>>

\* Ctrl-f: Editor::search up to the first read_key of its prompt.
KeySearch ==
  /\ ReadsKeyAt("read_key")
  /\ editor.should_quit # "Quitting"
  /\ prompt' = [result |-> <<>>, direction |-> "Forward",
                old_position |-> editor.cursor_position]
  /\ script' = << Call("play_and_wait", Utterance(FindText)) >>
  /\ reads_at' = "search_prompt"
  /\ UNCHANGED <<editor, disk>>

\* A key read by the prompt of Editor::search: the callback runs and the
\* prompt reads again, or the prompt returns, search ends and the main loop
\* drains.
SearchPromptKey ==
  /\ ReadsKeyAt("search_prompt")
  /\ \E key \in Keys :
       LET read == prompt_key(prompt.result, key)
           called == search_callback(editor, key, read.result, prompt.direction)
           ended == search_end(editor, prompt.old_position)
       IN  IF read.panics
           THEN /\ reads_at' = "panicked"
                /\ UNCHANGED <<editor, script, prompt>>
           ELSE IF read.break
           THEN /\ editor' = ended.ed
                /\ script' = ended.calls \o <<play_next_or_wait>>
                /\ prompt' = NoPrompt
                /\ reads_at' = "read_key"
           ELSE /\ editor' = called.ed
                /\ script' = called.calls
                /\ prompt' = [prompt EXCEPT !.result = read.result,
                                            !.direction = called.direction]
                /\ reads_at' = "search_prompt"
  /\ UNCHANGED disk

\* Ctrl-s: Editor::save, up to the first read_key of its prompt when the
\* document has no file name, and to the drain of the main loop when it has.
KeySave ==
  /\ ReadsKeyAt("read_key")
  /\ editor.should_quit # "Quitting"
  /\ IF editor.document.file_name = None
     THEN /\ script' = << Call("play_and_wait", Utterance(SaveAsText)) >>
          /\ prompt' = NoPrompt
          /\ reads_at' = "save_prompt"
          /\ UNCHANGED <<editor, disk>>
     ELSE \E outcome \in SaveOutcomes(editor.document) :
            LET saved == save_document(editor, outcome)
            IN  /\ editor' = saved.ed
                /\ script' = saved.calls \o <<play_next_or_wait>>
                /\ disk' = FileAfterSave(editor.document, disk, outcome)
                /\ UNCHANGED <<reads_at, prompt>>

\* A key read by the prompt of Editor::save: the prompt reads again, or it
\* returns and save goes on with the name typed, or aborts without one.
SavePromptKey ==
  /\ ReadsKeyAt("save_prompt")
  /\ \E key \in Keys :
       LET read == prompt_key(prompt.result, key)
           named == [editor EXCEPT !.document.file_name = Some(read.result)]
       IN  IF read.panics
           THEN /\ reads_at' = "panicked"
                /\ UNCHANGED <<editor, script, prompt, disk>>
           ELSE IF ~read.break
           THEN /\ prompt' = [prompt EXCEPT !.result = read.result]
                /\ script' = <<>>
                /\ UNCHANGED <<editor, reads_at, disk>>
           ELSE IF read.result = <<>>
           THEN /\ script' = << Call("interrupt_and_play", Utterance(SaveAbortedText)),
                                play_next_or_wait >>
                /\ prompt' = NoPrompt
                /\ reads_at' = "read_key"
                /\ UNCHANGED <<editor, disk>>
           ELSE \E outcome \in SaveOutcomes(named.document) :
                  LET saved == save_document(named, outcome)
                  IN  /\ editor' = saved.ed
                      /\ script' = saved.calls \o <<play_next_or_wait>>
                      /\ disk' = FileAfterSave(named.document, disk, outcome)
                      /\ prompt' = NoPrompt
                      /\ reads_at' = "read_key"

\* The steps of the thread inside the sound manager that the editor's calls
\* lead to.
EditorStep ==
  \/ ExecPlay \/ ExecPlayNext \/ ExecInterruptAndPlay
  \/ ExecPlayAndWait \/ ExecPlayRow
  \/ ExecSpeakNextOrWait \/ DrainPop \/ DrainExit \/ PlaybackEnds

EditorNext ==
  \/ KeyPress \/ KeySearch \/ SearchPromptKey \/ KeySave \/ SavePromptKey \/ Quit
  \/ EditorStep

EditorSpec == EditorInit /\ [][EditorNext]_vars

---------------------------------------------------------------------------
(* A caller of Row's methods, in any order: one Row, made by Row::from,    *)
(* and the calls of insert, delete, split and append on it.                *)

\* The characters the caller's strings are made of.
RowChars == {"a", "b", CombiningAcute}

\* The strings Row::from is given.
RowStrings ==
  { <<>>, <<"a">>, <<"a", "b">>, <<"a", CombiningAcute>>, <<"a", CombiningAcute, "b">> }

RowInit ==
  /\ SoundManagerInit
  /\ NoEditor
  /\ NoDocument
  /\ NoLookup
  /\ NoSpeech
  /\ NoConfig
  /\ \E slice \in RowStrings :
       /\ the_row = Row_from(slice)
       /\ row_call = RowCall("from", 0, "", Row_default, Row_default, None)

RowInsert ==
  /\ Len(the_row.string) < MaxRowLen
  /\ \E at_ \in 0..(MaxRowLen + 1), c \in RowChars :
       /\ the_row' = Row_insert(the_row, at_, c)
       /\ row_call' = RowCall("insert", at_, c, the_row, Row_default, None)
  /\ UNCHANGED <<sound_vars, editor_vars, doc_vars, fn_vars>>

RowDelete ==
  /\ \E at_ \in 0..(MaxRowLen + 1) :
       /\ the_row' = Row_delete(the_row, at_)
       /\ row_call' = IF row_call.op = "insert" /\ row_call.at = at_
                      THEN RowCall("delete", at_, row_call.c, the_row, Row_default,
                                   Some(row_call.pre))
                      ELSE RowCall("delete", at_, "", the_row, Row_default, None)
  /\ UNCHANGED <<sound_vars, editor_vars, doc_vars, fn_vars>>

RowSplit ==
  /\ \E at_ \in 0..(MaxRowLen + 1) :
       /\ the_row' = Row_split(the_row, at_).head
       /\ row_call' = RowCall("split", at_, "", the_row, Row_split(the_row, at_).tail, None)
  /\ UNCHANGED <<sound_vars, editor_vars, doc_vars, fn_vars>>

RowAppend ==
  /\ \E new \in {Row_from(slice) : slice \in RowStrings}
                \cup (IF row_call.op = "split" THEN {row_call.other} ELSE {}) :
       /\ Len(the_row.string) + Len(new.string) <= MaxRowLen
       /\ the_row' = Row_append(the_row, new)
       /\ row_call' = IF row_call.op = "split" /\ new = row_call.other
                      THEN RowCall("append", row_call.at, "", the_row, new, Some(row_call.pre))
                      ELSE RowCall("append", 0, "", the_row, new, None)
  /\ UNCHANGED <<sound_vars, editor_vars, doc_vars, fn_vars>>

RowNext == RowInsert \/ RowDelete \/ RowSplit \/ RowAppend

RowSpec == RowInit /\ [][RowNext]_vars

---------------------------------------------------------------------------
(* A caller of Document's methods, in any order: one Document, made by     *)
(* Document::default or Document::open, and the calls of insert, delete    *)
(* and save on it.                                                         *)

\* The characters the caller inserts.
DocChars == {"a", "\n", CombiningAcute}

\* The files Document::open is given.
DocFiles == { <<"a", "b">>, <<"a", "\n", "b">> }

\* The positions the caller names: every column and row of a document
\* within the bounds, and one beyond each.
DocPositions == { Position(x, y) : x \in 0..(MaxRowLen + 1), y \in 0..(MaxRows + 1) }

\* The document is within the bounds.
Fits(doc) ==
  /\ Len(doc.rows) <= MaxRows
  /\ \A k \in 1..Len(doc.rows) : Len(doc.rows[k].string) <= MaxRowLen

DocInit ==
  /\ SoundManagerInit
  /\ NoRow
  /\ NoLookup
  /\ NoSpeech
  /\ NoConfig
  /\ editor = Editor_default(Document_default)
  /\ reads_at = "caller"
  /\ prompt = NoPrompt
  /\ keys_read = 0
  /\ \/ /\ disk = None
        /\ the_document = Document_default
        /\ doc_call = DocCall("default", Position(0, 0), "", Document_default, NoOutcome, 0)
     \/ \E file \in DocFiles :
          /\ disk = Some(file)
          /\ the_document = Document_open(file, SampleFileName)
          /\ doc_call = DocCall("open", Position(0, 0), "", Document_default, NoOutcome, 0)

DocInsert ==
  /\ doc_call.n < MaxCalls
  /\ \E at_ \in DocPositions, c \in DocChars :
       /\ Fits(Document_insert(the_document, at_, c))
       /\ the_document' = Document_insert(the_document, at_, c)
       /\ doc_call' = DocCall("insert", at_, c, the_document, NoOutcome, doc_call.n + 1)
  /\ UNCHANGED <<sound_vars, editor_vars, row_vars, fn_vars>>

DocDelete ==
  /\ doc_call.n < MaxCalls
  /\ \E at_ \in DocPositions :
       /\ Fits(Document_delete(the_document, at_))
       /\ the_document' = Document_delete(the_document, at_)
       /\ doc_call' = DocCall("delete", at_, "", the_document, NoOutcome, doc_call.n + 1)
  /\ UNCHANGED <<sound_vars, editor_vars, row_vars, fn_vars>>

DocSave ==
  /\ doc_call.n < MaxCalls
  /\ \E outcome \in SaveOutcomes(the_document) :
       /\ the_document' = Document_save(the_document, outcome.kind = "written")
       /\ disk' = FileAfterSave(the_document, disk, outcome)
       /\ doc_call' = DocCall("save", Position(0, 0), "", the_document, outcome, doc_call.n + 1)
  /\ UNCHANGED <<sound_vars, editor, reads_at, prompt, keys_read, row_vars, fn_vars>>

DocNext == DocInsert \/ DocDelete \/ DocSave

DocSpec == DocInit /\ [][DocNext]_vars

---------------------------------------------------------------------------
(* A caller of the lookups: Row::find and Row::get_word_at on a row made   *)
(* by Row::from, Document::find on a document made by Document::open; one   *)
(* lookup in each run, none of them changing the row or the document.      *)

\* The characters of the rows and queries looked up.
LookupChars == {"a", "b", " ", CombiningAcute}

\* The strings of at most n of these characters.
LookupStrings(n) ==
  UNION { [1..k -> LookupChars] : k \in 0..n }

\* The queries: the strings Editor::prompt hands to the callback.
LookupQueries == LookupStrings(2)

\* The files of the documents searched.
LookupFiles ==
  { <<"a", "b", "\n", "a", "b">>, <<"a", "b", "\n", "b", "a">>,
    <<"b", "\n", "a", "b", "\n", "a">>, <<"a">>, <<>> }

\* The positions Editor::search gives to Document::find: the cursor's.
LookupPositions == { Position(x, y) : x \in 0..MaxRowLen, y \in 0..MaxRows }

LookupInit ==
  /\ SoundManagerInit
  /\ NoEditor
  /\ NoSpeech
  /\ NoConfig
  /\ NoLookup
  /\ row_call = RowCall("from", 0, "", Row_default, Row_default, None)
  /\ doc_call = DocCall("open", Position(0, 0), "", Document_default, NoOutcome, 0)
  /\ \/ /\ \E slice \in LookupStrings(MaxRowLen) : the_row = Row_from(slice)
        /\ the_document = Document_default
     \/ /\ the_row = Row_default
        /\ \E file \in LookupFiles : the_document = Document_open(file, SampleFileName)

RowFind ==
  /\ lookup.op = "none"
  /\ \E query \in LookupQueries :
       lookup' = Lookup("Row::find", query, Position(0, 0), "Forward", 0,
                        Row_find(the_row, query))
  /\ UNCHANGED <<sound_vars, editor_vars, row_vars, doc_vars, speech, config>>

RowGetWordAt ==
  /\ lookup.op = "none"
  /\ \E at_ \in 0..(MaxRowLen + 1) :
       lookup' = Lookup("Row::get_word_at", <<>>, Position(0, 0), "Forward", at_,
                        get_word_at(the_row, at_))
  /\ UNCHANGED <<sound_vars, editor_vars, row_vars, doc_vars, speech, config>>

\* editor.document.find(&query, &editor.cursor_position, direction)
DocFind ==
  /\ lookup.op = "none"
  /\ \E query \in LookupQueries, from \in LookupPositions,
        direction \in {"Forward", "Backward"} :
       lookup' = Lookup("Document::find", query, from, direction, 0,
                        Document_find(the_document, query))
  /\ UNCHANGED <<sound_vars, editor_vars, row_vars, doc_vars, speech, config>>

LookupNext == RowFind \/ RowGetWordAt \/ DocFind

LookupSpec == LookupInit /\ [][LookupNext]_vars

---------------------------------------------------------------------------
(* A caller of string_to_speakable_tokens: a text is spoken once, and what *)
(* was made of it is given to the function a second time.                  *)

\* The characters of the texts spoken: a letter, the space and some of the
\* table's symbols.
TokenChars == {"a", " ", "=", "<", "+", "-", "U+0027"}

\* The literals of the rule table, in its order.
Literals == [k \in 1..Len(replace_map) |-> replace_map[k][1]]

\* What a rule puts for its literal: format!(" {} ", replacement).
Phrase(k) == <<" ">> \o replace_map[k][2] \o <<" ">>

\* The texts spoken: every text of at most MaxTextLen characters, and every
\* literal of the table alone and between two letters.
SpokenTexts ==
  UNION { [1..k -> TokenChars] : k \in 0..MaxTextLen }
  \cup { Literals[k] : k \in 1..Len(replace_map) }
  \cup { <<"a">> \o Literals[k] \o <<"a">> : k \in 1..Len(replace_map) }

TokenInit ==
  /\ SoundManagerInit
  /\ NoEditor
  /\ NoRow
  /\ NoDocument
  /\ NoLookup
  /\ NoConfig
  /\ \E text \in SpokenTexts : speech = [text |-> text, once |-> None, twice |-> None]

SpeakOnce ==
  /\ speech.once = None
  /\ speech' = [speech EXCEPT !.once = Some(string_to_speakable_tokens(speech.text))]
  /\ UNCHANGED <<sound_vars, editor_vars, row_vars, doc_vars, lookup, config>>

SpeakTwice ==
  /\ speech.once # None
  /\ speech.twice = None
  /\ speech' = [speech EXCEPT !.twice = Some(string_to_speakable_tokens(speech.once[1]))]
  /\ UNCHANGED <<sound_vars, editor_vars, row_vars, doc_vars, lookup, config>>

TokenNext == SpeakOnce \/ SpeakTwice

TokenSpec == TokenInit /\ [][TokenNext]_vars

---------------------------------------------------------------------------
(* The configuration: read_config, ConfigManager, and the rate the speech  *)
(* command is given.                                                       *)

\* const DEFAULT_CONFIG_PATH: &str = ".config/clack/config.toml"
DEFAULT_CONFIG_PATH ==
  <<".", "c", "o", "n", "f", "i", "g", "/", "c", "l", "a", "c", "k", "/", "c", "o", "n", "f", "i", "g", ".", "t",
    "o", "m", "l">>

\* pub(crate) const DEFAULT_RATE_WPM: i64 = 300
DEFAULT_RATE_WPM == 300

\* const RATE_WPM: &str = "300"
RATE_WPM == <<"3", "0", "0">>

\* toml::Value: a string, an integer, a float, a boolean or a table of
\* (key, value) entries.
Value_String(s) == [type |-> "String", int |-> 0, str |-> s, entries |-> {}]
Value_Integer(n) == [type |-> "Integer", int |-> n, str |-> <<>>, entries |-> {}]
Value_Float == [type |-> "Float", int |-> 0, str |-> <<>>, entries |-> {}]
Value_Boolean == [type |-> "Boolean", int |-> 0, str |-> <<>>, entries |-> {}]
Value_Table(entries) == [type |-> "Table", int |-> 0, str |-> <<>>, entries |-> entries]

\* Value::get(key): the entry of a table under the key, None for a missing
\* key and for a value that is no table.
Value_get(v, key) ==
  IF v.type = "Table" /\ \E e \in v.entries : e[1] = key
  THEN Some((CHOOSE e \in v.entries : e[1] = key)[2])
  ELSE None

\* Value::as_integer()
Value_as_integer(v) == IF v.type = "Integer" THEN Some(v.int) ELSE None

\* What a function returns, or the panic of an unwrap() inside it.
Returned(v) == [panicked |-> FALSE, value |-> <<v>>]
Panicked == [panicked |-> TRUE, value |-> <<>>]

\* read_config(): `file` is what is found at the path: whether there is a
\* home directory, whether the file exists and can be read, and the value
\* its contents parse to (None when they are no TOML document).
read_config(file) ==
  IF ~file.home THEN Panicked
  ELSE IF ~file.exists THEN Returned(Value_String(DEFAULT_CONFIG_PATH))
  ELSE IF ~file.readable THEN Panicked
  ELSE IF file.parsed = None THEN Panicked
  ELSE Returned(file.parsed[1])

\* ConfigManager::new()
ConfigManager_new(file) == read_config(file)

\* ConfigManager::get_rate_wpm()
get_rate_wpm(cfg) ==
  LET got == Value_get(cfg, "rate_wpm")
      value == IF got = None THEN Value_Integer(DEFAULT_RATE_WPM) ELSE got[1]
      n == Value_as_integer(value)
  IN  IF n = None THEN Panicked ELSE Returned(n[1])

\* The arguments Utterance::speak and speak_and_wait give to `say`.
Command_args(text) == << <<"-", "r">>, RATE_WPM, text >>

\* The rates a configuration file sets.
ConfiguredRates ==
  (DEFAULT_RATE_WPM - MaxRateDelta)..(DEFAULT_RATE_WPM + MaxRateDelta)

\* The values a configuration file gives rate_wpm.
RateValues ==
  { Value_Integer(n) : n \in ConfiguredRates }
  \cup { Value_String(RATE_WPM), Value_Float, Value_Boolean }

\* The tables a configuration file parses to: empty, without the key, and
\* with the key.
ConfigTables ==
  { Value_Table({}), Value_Table({<<"theme", Value_String(<<"a">>)>>}) }
  \cup { Value_Table({<<"rate_wpm", v>>}) : v \in RateValues }

\* What is found at the configuration path.
ConfigFiles ==
  { [home |-> FALSE, exists |-> FALSE, readable |-> FALSE, parsed |-> None],
    [home |-> TRUE, exists |-> FALSE, readable |-> FALSE, parsed |-> None],
    [home |-> TRUE, exists |-> TRUE, readable |-> FALSE, parsed |-> None],
    [home |-> TRUE, exists |-> TRUE, readable |-> TRUE, parsed |-> None] }
  \cup { [home |-> TRUE, exists |-> TRUE, readable |-> TRUE, parsed |-> Some(t)] :
           t \in ConfigTables }

ConfigInit ==
  /\ SoundManagerInit
  /\ NoEditor
  /\ NoRow
  /\ NoDocument
  /\ NoLookup
  /\ NoSpeech
  /\ \E file \in ConfigFiles :
       config = [file |-> file, config |-> None, rate_wpm |-> None,
                 said_at |-> None, panicked |-> FALSE]

\* ConfigManager::new() is called.
ConfigNew ==
  /\ ~config.panicked
  /\ config.config = None
  /\ LET r == ConfigManager_new(config.file)
     IN  config' = [config EXCEPT !.config = r.value, !.panicked = r.panicked]
  /\ UNCHANGED <<sound_vars, editor_vars, row_vars, doc_vars, lookup, speech>>

\* get_rate_wpm() is called on the ConfigManager.
GetRateWpm ==
  /\ ~config.panicked
  /\ config.config # None
  /\ config.rate_wpm = None
  /\ LET r == get_rate_wpm(config.config[1])
     IN  config' = [config EXCEPT !.rate_wpm = r.value, !.panicked = r.panicked]
  /\ UNCHANGED <<sound_vars, editor_vars, row_vars, doc_vars, lookup, speech>>

\* An utterance is spoken: `say -r RATE_WPM text`.
SpeakAtRate ==
  /\ ~config.panicked
  /\ config.said_at = None
  /\ config' = [config EXCEPT !.said_at = Some(Command_args(<<"a">>)[2])]
  /\ UNCHANGED <<sound_vars, editor_vars, row_vars, doc_vars, lookup, speech>>

ConfigNext == ConfigNew \/ GetRateWpm \/ SpeakAtRate

ConfigSpec == ConfigInit /\ [][ConfigNext]_vars

---------------------------------------------------------------------------
(* The claims.                                                             *)

\* Whether `suffix` ends `s`.
IsSuffix(suffix, s) ==
  /\ Len(suffix) <= Len(s)
  /\ \A k \in 1..Len(suffix) : s[Len(s) - Len(suffix) + k] = suffix[k]

Drained == Done /\ call.op = "speak_next_or_wait"

\* C1: the sounds of a run of consecutive play calls stay at the back of the
\* queue in the order of the calls, and the speak_next_or_wait that follows
\* the run plays them last and in that order (first in, first out).
C1_FifoOrder ==
  /\ (Done /\ call.op = "play") => IsSuffix(fifo_run, sound_manager.queue)
  /\ Drained => IsSuffix(fifo_run, played)

C1_Witness ==
  /\ Drained
  /\ Len(fifo_run) >= 2
  /\ fifo_run[1] # fifo_run[2]
  /\ Len(played) > Len(fifo_run)

\* C2: interrupt_and_play(C) on a queue Q leaves the queue C followed by Q,
\* the speak_next_or_wait called next plays C and then Q in Q's order, and a
\* second interrupt_and_play called next puts its sound before C.
C2_InterruptGoesFirst ==
  /\ (Done /\ call.op = "interrupt_and_play")
       => sound_manager.queue = <<call.arg>> \o call.pre.queue
  /\ (Done /\ call.op = "interrupt_and_play" /\ prev_call.op = "interrupt_and_play")
       => sound_manager.queue = <<call.arg, prev_call.arg>> \o prev_call.pre.queue
  /\ (Drained /\ prev_call.op = "interrupt_and_play")
       => played = <<prev_call.arg>> \o prev_call.pre.queue

C2_Witness ==
  /\ Drained
  /\ prev_call.op = "interrupt_and_play"
  /\ Len(prev_call.pre.queue) = 2
  /\ prev_call.pre.queue[1] # prev_call.pre.queue[2]
  /\ prev_call.arg \notin {prev_call.pre.queue[1], prev_call.pre.queue[2]}
  /\ Len(played) = 3

\* C4: while speak_next_or_wait plays a sound, current_sound holds that
\* sound and current_child_process the live speech process, if there is one;
\* both are empty whenever no sound is being played.
C4_SlotHoldsInFlight ==
  /\ pc = "drain_play"
       => /\ sound_manager.current_sound = sound
          /\ (child # None) <=> (sound_manager.current_child_process # None)
  /\ pc \in {"idle", "drain_loop"}
       => /\ sound_manager.current_sound = None
          /\ sound_manager.current_child_process = None

C6_DrainCompletes ==
  /\ [](Drained =>
          /\ played = call.pre.queue
          /\ sound_manager.queue = <<>>
          /\ sound_manager.current_sound = None
          /\ sound_manager.current_child_process = None)
  /\ (call.op = "speak_next_or_wait" /\ ~Done) ~> (Drained \/ pc = "panicked")

C6_Witness ==
  /\ Drained
  /\ Len(call.pre.queue) >= 2
  /\ played = call.pre.queue

\* The thread is at a Terminal::read_key: in the main loop, or in the prompt
\* of search or of save.
AtKeyRead ==
  /\ Done
  /\ \/ reads_at = "read_key" /\ editor.should_quit # "Quitting"
     \/ reads_at \in {"search_prompt", "save_prompt"}

\* C7: whenever the editor reads a key, in the main loop or in the prompt
\* loops of search and save-as, the sound manager's queue is empty: every
\* sound queued before the read has been played.
C7_NoKeyReadWhileQueued == AtKeyRead => sound_manager.queue = <<>>

BlockingOps == {"speak_next_or_wait", "play_and_wait", "play_row", "play_row_and_wait"}

C9_Clear ==
  (Done /\ call.op = "clear") =>
    /\ sound_manager.queue = <<>>
    /\ sound_manager.current_sound = call.pre.current_sound
    /\ sound_manager.current_child_process = call.pre.current_child_process
    /\ child = call.pre_child

C9_Witness ==
  /\ Done
  /\ call.op = "clear"
  /\ Len(call.pre.queue) >= 2

\* C10: clear_and_play(s) leaves the manager as clear() followed by play(s)
\* would: the queue is s alone and the current fields are as they were.
C10_ClearAndPlay ==
  (Done /\ call.op = "clear_and_play") =>
    /\ sound_manager = play(clear(call.pre), call.arg)
    /\ sound_manager.queue = <<call.arg>>
    /\ sound_manager.current_sound = call.pre.current_sound
    /\ sound_manager.current_child_process = call.pre.current_child_process

C10_Witness ==
  /\ Done
  /\ call.op = "clear_and_play"
  /\ Len(call.pre.queue) >= 2

\* C11: after any sequence of Row operations (from, insert, delete, append,
\* split) the row's cached length is the number of grapheme clusters of its
\* text, also when an inserted combining mark merges with a neighbour.
C11_CachedLenIsClusterCount == the_row.len = Len(Graphemes(the_row.string))

\* C12: an edit addressed beyond the document does nothing: after an insert
\* at a row greater than row_count, or a delete at a row not less than
\* row_count, the rows, the file name and the dirty flag are what they were.
C12_BeyondIsNoOp ==
  (\/ doc_call.op = "insert" /\ doc_call.at.y > row_count(doc_call.pre)
   \/ doc_call.op = "delete" /\ doc_call.at.y >= row_count(doc_call.pre))
  => the_document = doc_call.pre

\* A delete addressed at row_count of a clean document that has rows.
C12_Witness ==
  /\ doc_call.op = "delete"
  /\ doc_call.at.y = row_count(doc_call.pre)
  /\ doc_call.pre.rows # <<>>
  /\ ~doc_call.pre.dirty

\* The rows of `rows` other than the one at index y (from 0).
OtherRows(rows, y) == SubSeq(rows, 1, y) \o SubSeq(rows, y + 2, Len(rows))

\* C13: after Document::insert of a character c that is no line break, at a
\* position with at.y < row_count and at.x <= the length of that row, the
\* clusters of the row are those it had with c as a cluster of its own at
\* index at.x (those before it kept, those from it on shifted right by one),
\* the row's length has grown by exactly one, every other row is unchanged
\* and the document is dirty.
C13_InsertPutsCharAtColumn ==
  (/\ doc_call.op = "insert"
   /\ doc_call.c # "\n"
   /\ doc_call.at.y < row_count(doc_call.pre)
   /\ doc_call.at.x <= doc_call.pre.rows[doc_call.at.y + 1].len)
  => LET y == doc_call.at.y
         x == doc_call.at.x
         old == doc_call.pre.rows[y + 1]
         clusters == Graphemes(old.string)
     IN  /\ row_count(the_document) = row_count(doc_call.pre)
         /\ x <= Len(clusters)
         /\ Graphemes(the_document.rows[y + 1].string)
              = SubSeq(clusters, 1, x) \o << <<doc_call.c>> >>
                  \o SubSeq(clusters, x + 1, Len(clusters))
         /\ the_document.rows[y + 1].len = old.len + 1
         /\ OtherRows(the_document.rows, y) = OtherRows(doc_call.pre.rows, y)
         /\ the_document.dirty

\* C14: after Document::insert of a line break at a position with
\* at.y < row_count, the row at.y holds the clusters the row had before
\* at.x and the row at.y + 1 holds those from at.x on; the rows before and
\* after them are the other rows as they were and in their order, row_count
\* has grown by exactly one and the document is dirty.
C14_LineBreakSplitsRow ==
  (/\ doc_call.op = "insert"
   /\ doc_call.c = "\n"
   /\ doc_call.at.y < row_count(doc_call.pre))
  => LET y == doc_call.at.y
         before == doc_call.pre.rows
         after == the_document.rows
         clusters == Graphemes(before[y + 1].string)
         cut == IF doc_call.at.x < Len(clusters) THEN doc_call.at.x ELSE Len(clusters)
     IN  /\ Len(after) = Len(before) + 1
         /\ Graphemes(after[y + 1].string) = SubSeq(clusters, 1, cut)
         /\ Graphemes(after[y + 2].string) = SubSeq(clusters, cut + 1, Len(clusters))
         /\ SubSeq(after, 1, y) = SubSeq(before, 1, y)
         /\ SubSeq(after, y + 3, Len(after)) = SubSeq(before, y + 2, Len(before))
         /\ the_document.dirty

\* A line break inserted inside the first of two rows of a clean document.
C14_Witness ==
  /\ doc_call.op = "insert"
  /\ doc_call.c = "\n"
  /\ doc_call.at.y = 0
  /\ row_count(doc_call.pre) = 2
  /\ doc_call.at.x > 0
  /\ doc_call.at.x < Len(Graphemes(doc_call.pre.rows[1].string))
  /\ ~doc_call.pre.dirty

\* C15: after Document::insert at a position with at.y = row_count, the rows
\* are the rows there were followed by exactly one new row, which holds the
\* inserted character alone (at column 0, whatever at.x was) or is empty if
\* the character was a line break, and the document is dirty.
C15_InsertAtRowCountAppendsRow ==
  (doc_call.op = "insert" /\ doc_call.at.y = row_count(doc_call.pre))
  => /\ row_count(the_document) = row_count(doc_call.pre) + 1
     /\ SubSeq(the_document.rows, 1, row_count(doc_call.pre)) = doc_call.pre.rows
     /\ the_document.rows[row_count(the_document)].string
          = IF doc_call.c = "\n" THEN <<>> ELSE <<doc_call.c>>
     /\ the_document.dirty

\* A character inserted at row_count, at a column other than 0, into a clean
\* document that has rows.
C15_Witness ==
  /\ doc_call.op = "insert"
  /\ doc_call.c # "\n"
  /\ doc_call.at.y = row_count(doc_call.pre)
  /\ doc_call.at.x > 0
  /\ doc_call.pre.rows # <<>>
  /\ ~doc_call.pre.dirty

\* C16: after Document::delete at a position whose column is the length of
\* row at.y, when row at.y + 1 exists, row at.y is the text it had followed
\* by the text of the next row, the next row is gone (row_count is one
\* less), every other row is unchanged and the document is dirty.
C16_DeleteAtEndJoinsRows ==
  (/\ doc_call.op = "delete"
   /\ doc_call.at.y + 1 < row_count(doc_call.pre)
   /\ doc_call.at.x = doc_call.pre.rows[doc_call.at.y + 1].len)
  => LET y == doc_call.at.y
         before == doc_call.pre.rows
         after == the_document.rows
     IN  /\ Len(after) = Len(before) - 1
         /\ after[y + 1].string = before[y + 1].string \o before[y + 2].string
         /\ SubSeq(after, 1, y) = SubSeq(before, 1, y)
         /\ SubSeq(after, y + 2, Len(after)) = SubSeq(before, y + 3, Len(before))
         /\ the_document.dirty

\* A delete at the end of a row of a clean document, the row and the one
\* after it holding different texts.
C16_Witness ==
  /\ doc_call.op = "delete"
  /\ doc_call.at.y + 1 < row_count(doc_call.pre)
  /\ doc_call.at.x = doc_call.pre.rows[doc_call.at.y + 1].len
  /\ doc_call.pre.rows[doc_call.at.y + 1].string # <<>>
  /\ doc_call.pre.rows[doc_call.at.y + 2].string # <<>>
  /\ doc_call.pre.rows[doc_call.at.y + 1].string # doc_call.pre.rows[doc_call.at.y + 2].string
  /\ ~doc_call.pre.dirty

\* C17: after Document::delete at a position with at.y < row_count and
\* at.x less than the length of that row, the clusters of the row are those
\* it had without the one at index at.x, in their order, the row's length is
\* one less, row_count and every other row are unchanged and the document
\* is dirty.
C17_DeleteRemovesClusterAtColumn ==
  (/\ doc_call.op = "delete"
   /\ doc_call.at.y < row_count(doc_call.pre)
   /\ doc_call.at.x < doc_call.pre.rows[doc_call.at.y + 1].len)
  => LET y == doc_call.at.y
         x == doc_call.at.x
         old == doc_call.pre.rows[y + 1]
         clusters == Graphemes(old.string)
     IN  /\ row_count(the_document) = row_count(doc_call.pre)
         /\ x < Len(clusters)
         /\ Graphemes(the_document.rows[y + 1].string)
              = SubSeq(clusters, 1, x) \o SubSeq(clusters, x + 2, Len(clusters))
         /\ the_document.rows[y + 1].len = old.len - 1
         /\ OtherRows(the_document.rows, y) = OtherRows(doc_call.pre.rows, y)
         /\ the_document.dirty

\* C18: the document is dirty after every insert or delete that changed its
\* rows, and a call that finds it dirty and leaves it clean is a save of a
\* document that has a file name, whose File::create and writes all
\* succeeded, the file now holding the document's rows (so a save without a
\* file name, or one whose write failed, leaves a dirty document dirty).
C18_DirtyFlag ==
  /\ (doc_call.op \in {"insert", "delete"} /\ the_document.rows # doc_call.pre.rows)
       => the_document.dirty
  /\ (doc_call.pre.dirty /\ ~the_document.dirty)
       => /\ doc_call.op = "save"
          /\ doc_call.pre.file_name # None
          /\ doc_call.outcome.kind = "written"
          /\ disk = Some(FileContents(doc_call.pre))

\* A save that found the document dirty, with rows other than the file's,
\* and left it clean.
C18_Witness ==
  /\ doc_call.op = "save"
  /\ doc_call.pre.dirty
  /\ ~the_document.dirty
  /\ the_document.rows # <<>>

\* C19: Row::insert(i, c) with i <= len(r), c no line break, followed by
\* Row::delete(i), leaves a row with the clusters and the cached length of
\* the row r the insert was called on.
C19_InsertThenDelete ==
  (/\ row_call.op = "delete"
   /\ row_call.before # None
   /\ row_call.c # "\n"
   /\ row_call.at <= row_call.before[1].len)
  => /\ Graphemes(the_row.string) = Graphemes(row_call.before[1].string)
     /\ the_row.len = row_call.before[1].len

\* C20: Row::split(i) with i <= len(r) leaves the first i clusters of r and
\* returns a row of the remaining ones, and Row::append of the row returned
\* then leaves a row with the clusters and the cached length of r.
C20_SplitThenAppend ==
  (/\ row_call.op = "append"
   /\ row_call.before # None
   /\ row_call.at <= row_call.before[1].len)
  => LET r == row_call.before[1]
         clusters == Graphemes(r.string)
         i == row_call.at
     IN  /\ i <= Len(clusters)
         /\ Graphemes(row_call.pre.string) = SubSeq(clusters, 1, i)
         /\ Graphemes(row_call.other.string) = SubSeq(clusters, i + 1, Len(clusters))
         /\ Graphemes(the_row.string) = clusters
         /\ the_row.len = r.len

\* C21: Document::find(query, from, direction) returns a position exactly
\* when Row::find finds the query in some row, the position is that of the
\* query in such a row, and when a match lies at or after `from` in the
\* direction of the scan (Forward: in a later row, or in the row of `from`
\* at or after its column; Backward: the mirror image), the position
\* returned is such a match, not one that lies before `from`.
C21_FindFromPositionInDirection ==
  lookup.op = "Document::find" =>
    LET rows == the_document.rows
        matches == { Position(Row_find(rows[y], lookup.query)[1], y - 1) :
                       y \in { k \in 1..Len(rows) : Row_find(rows[k], lookup.query) # None } }
        ahead(p) == IF lookup.direction = "Forward"
                    THEN p.y > lookup.from.y \/ (p.y = lookup.from.y /\ p.x >= lookup.from.x)
                    ELSE p.y < lookup.from.y \/ (p.y = lookup.from.y /\ p.x <= lookup.from.x)
    IN  /\ (lookup.result = None) <=> (matches = {})
        /\ lookup.result # None => lookup.result[1] \in matches
        /\ (\E m \in matches : ahead(m)) => (lookup.result # None /\ ahead(lookup.result[1]))

\* C22: Row::find returns a result exactly when the query occurs in the
\* row's text, and the result is the index, in grapheme clusters, of the
\* cluster in which the first occurrence begins.
C22_RowFindClusterIndex ==
  lookup.op = "Row::find" =>
    LET hit == StrFind(the_row.string, lookup.query)
        starts == GraphemeStarts(the_row.string)
        holding == { k \in 1..Len(starts) : starts[k] <= hit[1] }
    IN  /\ (lookup.result # None) <=> (hit # None)
        /\ lookup.result # None =>
             lookup.result[1] = (CHOOSE k \in holding : \A j \in holding : j <= k) - 1

\* The number of grapheme clusters in the first k of the tokens ws.
ClustersUpTo(ws, k) == Len(Graphemes(Concat(SubSeq(ws, 1, k))))

\* C23: Row::get_word_at(at) returns the word-bound token that holds the
\* grapheme cluster at index `at` when `at` is less than the row's length,
\* and none when it is not.
C23_WordAtClusterIndex ==
  lookup.op = "Row::get_word_at" =>
    LET ws == WordBounds(the_row.string)
        holding == { k \in 1..Len(ws) :
                       ClustersUpTo(ws, k - 1) <= lookup.at /\ lookup.at < ClustersUpTo(ws, k) }
    IN  IF lookup.at < the_row.len
        THEN /\ lookup.result # None
             /\ \E k \in holding : lookup.result[1] = ws[k]
        ELSE lookup.result = None

\* Whether `lit` occurs in the text s.
Occurs(lit, s) == \E i \in 1..(Len(s) + 1) : MatchesAt(s, lit, i)

LongerFirst ==
  \A i, j \in 1..Len(replace_map) :
    (Len(Literals[j]) < Len(Literals[i]) /\ Occurs(Literals[j], Literals[i])) => i < j

\* The positions of the text s at which literal k occurs.
OccursAt(k, s) == { i \in 1..Len(s) : MatchesAt(s, Literals[k], i) }

\* Whether an occurrence of literal j at h and one of literal k at i share a
\* character.
Overlap(j, h, k, i) == h < i + Len(Literals[k]) /\ i < h + Len(Literals[j])

RECURSIVE Fired(_, _)
\* The rules, from rule k on, that find their literal in the text when their
\* turn comes, text_copy being what the rules before k have made.
Fired(text_copy, k) ==
  IF k > Len(replace_map) \/ text_copy = <<>> THEN {}
  ELSE (IF Occurs(Literals[k], text_copy) THEN {k} ELSE {})
       \cup Fired(Replace(text_copy, Literals[k], Phrase(k)), k + 1)

\* C26: no phrase of the table, as it is put into the text, holds the
\* literal of a rule applied after it, and the phrase of every rule that
\* replaced something is in the output as the rule wrote it.
C26_PhrasesAreFinal ==
  /\ \A i, j \in 1..Len(replace_map) : i < j => ~Occurs(Literals[j], Phrase(i))
  /\ speech.once # None =>
       \A k \in Fired(speech.text, 1) : Occurs(Phrase(k), speech.once[1])

\* A text in which two rules replaced something has been spoken.
C26_Witness ==
  /\ speech.once # None
  /\ Cardinality(Fired(speech.text, 1)) >= 2
  /\ \E k \in Fired(speech.text, 1) : Occurs(<<"-">>, Phrase(k))

\* C27: the tokenizer is not idempotent: whenever a text has been spoken
\* twice, there is among the texts spoken one that
\* string_to_speakable_tokens, given its own output, changes again.
C27_NotIdempotent ==
  speech.twice # None =>
    \E text \in SpokenTexts :
      string_to_speakable_tokens(string_to_speakable_tokens(text))
        # string_to_speakable_tokens(text)

\* A text has been spoken twice and the second run changed what the first
\* had made.
C27_Witness ==
  /\ speech.twice # None
  /\ speech.twice # speech.once

---------------------------------------------------------------------------
(* Backend faults.                                                         *)

\* The sound whose playback the next step of the thread starts, if any: the
\* argument of a play_and_wait call or the front of the queue in the drain.
Starting ==
  IF pc = "drain_loop" /\ sound_manager.queue # <<>>
  THEN Some(Head(sound_manager.queue))
  ELSE IF NextIs("play_and_wait") THEN Some(Head(script).arg) ELSE None

\* C28: when the output device cannot be opened, tone playback does nothing
\* and returns normally: no step that starts a Tone terminates the program.
C28_ToneFaultIsNoOp ==
  [][(Starting # None /\ Starting[1].kind = "Tone") => pc' # "panicked"]_vars

\* C29: when the speech process fails to start, the fault does not unwind
\* past the editor's input loop: no step that starts an Utterance terminates
\* the program, so the sounds still queued are played afterwards.
C29_SpeechFaultStaysLocal ==
  [][(Starting # None /\ Starting[1].kind = "Utterance") => pc' # "panicked"]_vars

\* The number a decimal numeral stands for.
NumberOf(s) ==
  LET Digit(c) == CHOOSE d \in 0..9 : <<"0", "1", "2", "3", "4", "5", "6", "7", "8", "9">>[d + 1] = c
      value[k \in 0..Len(s)] == IF k = 0 THEN 0 ELSE value[k - 1] * 10 + Digit(s[k])
  IN  value[Len(s)]

\* The rate the configuration file asks for: its rate_wpm when that is an
\* integer, the default in every other case.
ConfiguredRate(file) ==
  LET got == IF file.home /\ file.exists /\ file.readable /\ file.parsed # None
             THEN Value_get(file.parsed[1], "rate_wpm")
             ELSE None
  IN  IF got # None /\ got[1].type = "Integer" THEN got[1].int ELSE DEFAULT_RATE_WPM

\* C30: the speech rate used is the configured rate_wpm when a valid value is
\* configured and 300 in every other case, and nothing fails: no call panics,
\* get_rate_wpm returns that rate and `say` is given that rate.
C30_RateIsConfiguredOrDefault ==
  /\ ~config.panicked
  /\ config.rate_wpm # None => config.rate_wpm[1] = ConfiguredRate(config.file)
  /\ config.said_at # None => NumberOf(config.said_at[1]) = ConfiguredRate(config.file)

---------------------------------------------------------------------------
(* The editor's main loop.                                                 *)

\* The number of drain calls among the calls the editor has still to make.
DrainsAhead == Cardinality({k \in 1..Len(script) : script[k] = play_next_or_wait})

\* The thread is inside the drain.
Draining == pc \in {"drain_loop", "drain_play"}

\* C31: in the main loop the scheduler is drained exactly once per key read,
\* after the key has been fully processed and before the next key is read,
\* keys the editor ignores included: once a key was read and the thread is
\* back in the main loop, the one drain call is the last call still ahead, or
\* the thread is inside the drain with no call ahead, or the drain has
\* returned, the queue is empty and the next key is read (or the loop exits);
\* the main loop reaches its next read only out of the drain; the queue is
\* empty at the start of every iteration and after the loop has exited.
C31_DrainOncePerKey ==
  /\ [](/\ DrainsAhead <= 1
        /\ reads_at \in {"search_prompt", "save_prompt"} => DrainsAhead = 0
        /\ (reads_at = "read_key" /\ keys_read > 0 /\ pc # "panicked") =>
             \/ /\ script # <<>>
                /\ script[Len(script)] = play_next_or_wait
                /\ DrainsAhead = 1
                /\ ~Draining
             \/ script = <<>> /\ Draining
             \/ Done /\ sound_manager.queue = <<>>
        /\ (reads_at = "read_key" /\ Done) => sound_manager.queue = <<>>
        /\ reads_at = "exited" => Done /\ sound_manager.queue = <<>>)
  /\ [][(keys_read > 0 /\ reads_at' = "read_key" /\ Done' /\ ~Done) => pc = "drain_loop"]_vars
  /\ [][(keys_read' # keys_read /\ reads_at' = "read_key") =>
          DrainsAhead' = 1 /\ script'[Len(script')] = play_next_or_wait]_vars

\* A key that makes no sound at all (an ignored key) has been read and the
\* drain that follows it is running.
C31_Witness ==
  /\ reads_at = "read_key"
  /\ keys_read > 0
  /\ pc = "drain_loop"
  /\ played = <<>>
  /\ sound_manager.queue = <<>>
  /\ script = <<>>

\* C32: after every processed key the cursor addresses a valid place:
\* cursor.y <= row_count and cursor.x <= the length of row cursor.y, which
\* makes cursor.x = 0 when cursor.y = row_count (no row: width 0).
C32_CursorValid ==
  /\ editor.cursor_position.y <= row_count(editor.document)
  /\ editor.cursor_position.x <= width_at(editor, editor.cursor_position.y)

\* The key read last was the Ctrl-q that asked "Quit without saving?": the
\* question is all that was played since that key was read.
AskedByLastKey == played = << Utterance(QuitWithoutSavingText) >>

\* C33: the editor quits with unsaved changes only on a confirmed quit: a key
\* moves the editor to Quitting while the document is dirty only if the key
\* read immediately before it was the Ctrl-q that asked for confirmation.
C33_QuitDirtyOnlyConfirmed ==
  [][(editor.should_quit # "Quitting" /\ editor'.should_quit = "Quitting"
      /\ editor.document.dirty) => AskedByLastKey]_vars

\* The texts of the rows of the editor's document, in order.
RowTexts(ed) == [k \in 1..Len(ed.document.rows) |-> ed.document.rows[k].string]

\* The editor after the key Char(c) and then Backspace.
TypedAndErased(ed, c) ==
  process_keypress(process_keypress(ed, Char(c)).ed, Named("Backspace")).ed

\* C34: in every state in which the main loop reads a key, typing one
\* character (a non-control character or a newline) and then pressing
\* Backspace restores the document's rows and the cursor position.
C34_TypeThenBackspaceRestores ==
  (Done /\ reads_at = "read_key" /\ editor.should_quit # "Quitting") =>
    \A c \in TypedChars :
      /\ RowTexts(TypedAndErased(editor, c)) = RowTexts(editor)
      /\ TypedAndErased(editor, c).cursor_position = editor.cursor_position

---------------------------------------------------------------------------
(* Documents: splitting, joining, saving and reopening.                    *)

\* The grapheme clusters of all rows of a document, concatenated in order.
DocText(doc) ==
  Concat([k \in 1..Len(doc.rows) |-> Concat(Graphemes(doc.rows[k].string))])

\* The last call inserted a line break at a place of the document.
SplitCall ==
  /\ doc_call.op = "insert"
  /\ doc_call.c = "\n"
  /\ doc_call.at.y <= row_count(doc_call.pre)

\* The last call was a delete at the end of a row.
DeleteAtEndCall ==
  /\ doc_call.op = "delete"
  /\ doc_call.at.y < row_count(doc_call.pre)
  /\ doc_call.at.x = doc_call.pre.rows[doc_call.at.y + 1].len

\* The delete at the end of a row had a next row to join.
JoinCall == DeleteAtEndCall /\ doc_call.at.y + 1 < row_count(doc_call.pre)

\* C35: line splitting and joining conserve text: an insert of a line break
\* and a delete at the end of a row leave the in-order concatenation of the
\* grapheme clusters of all rows unchanged; row_count goes up by one per
\* split and down by one per join (a delete at the end of the last row joins
\* nothing); a document with a row never drops to zero rows.
C35_SplitJoinConserveText ==
  /\ SplitCall =>
       /\ DocText(the_document) = DocText(doc_call.pre)
       /\ row_count(the_document) = row_count(doc_call.pre) + 1
  /\ DeleteAtEndCall =>
       /\ DocText(the_document) = DocText(doc_call.pre)
       /\ row_count(the_document) =
            row_count(doc_call.pre) - (IF JoinCall THEN 1 ELSE 0)
  /\ (doc_call.op \in {"insert", "delete"} /\ row_count(doc_call.pre) >= 1) =>
       row_count(the_document) >= 1

\* A row with text in it was split in two and the two were joined again.
C35_Witness ==
  /\ JoinCall
  /\ row_count(the_document) >= 1
  /\ DocText(the_document) # <<>>
  /\ \E k \in 1..Len(the_document.rows) : Len(Graphemes(the_document.rows[k].string)) >= 2
  /\ doc_call.n >= 2

\* The texts of the rows of a document, in order.
DocRowTexts(doc) == [k \in 1..Len(doc.rows) |-> doc.rows[k].string]

\* The last call was a save that wrote the whole document to its file.
SavedCall ==
  /\ doc_call.op = "save"
  /\ doc_call.outcome.kind = "written"
  /\ the_document.file_name # None
  /\ disk # None

\* C36: saving and reopening is a round trip: Document::open of the file
\* that Document::save has written yields the same rows, in number and in
\* content.
C36_SaveOpenRoundTrip ==
  SavedCall =>
    DocRowTexts(Document_open(disk[1], the_document.file_name[1])) = DocRowTexts(the_document)

====
